---- MODULE Spec2Model ----
(***************************************************************************)
(* Model of the inferencia request gateway: the per-key token-bucket rate  *)
(* limiter (internal/middleware/ratelimit.go), the middleware chain        *)
(* (internal/middleware/middleware.go, auth.go, recover.go, logging.go)    *)
(* and the protected routes wired in internal/server/server.go; the        *)
(* backend registry (internal/backend/backend.go), the handlers of the     *)
(* routes (internal/handler) and the streaming relay between the MLX       *)
(* adapter (internal/backend/mlx.go) and the client; and the limiter used  *)
(* by several goroutines at once, with its mutex.                          *)
(*                                                                         *)
(* Time is counted in periods of cleanup's ticker.  A token count (a       *)
(* float64 in the code) is kept as an exact fixed-point number: TokenScale *)
(* units make one token, and a rate is a number of units per unit of time, *)
(* so that the refill elapsed * rate is exact.                             *)
(***************************************************************************)
EXTENDS Integers, Sequences, FiniteSets, TLC

\* ------------------------------------------------------------------ bounds
TokenScale == 3
MaxBurst == 2
MaxTime == 5

\* --------------------------------------------------------- program constants
\* The period of cleanup's ticker, 5 minutes, is the unit of time.
TickMinutes == 5
CleanupInterval == 5 \div TickMinutes
Retention == 10 \div TickMinutes

\* A string that the code takes apart (an Authorization header, a token) is
\* a sequence of chunks, and the empty string is the empty sequence.
KeyA == <<"sk-a">>
KeyB == <<"sk-b">>

\* Credentials presented to the limiter.
Credentials == {KeyA, KeyB}

\* Refill rates, in units per unit of time: one token every TokenScale units
\* of time, and one token every unit of time.
Rates == {1, TokenScale}

\* 1/R, in units of time, for a rate of Rates.
OneOverRate(r) == TokenScale \div r

\* Calls counted in a run of immediate calls on a new bucket.
MaxStreak == MaxBurst + 2

\* The longest list of middleware given to Chain around the test handler.
MaxChain == 2

\* The most lines in the body of an upstream's streaming response.
MaxLines == 3

\* The requests served.
Requests == {1}

\* The goroutines that call Allow on one limiter at the same time.
MaxCalls == 2

\* The most backends in a configuration.
MaxBackends == 2

VARIABLES
    rate,       \* rl.rate
    burst,      \* rl.burst
    buckets,    \* rl.buckets: credential -> [tokens, lastSeen]
    now,        \* time.Now()
    nextSweep,  \* the next tick of cleanup's ticker
    streak,     \* history: per credential, the calls made since its bucket
                \* was created, while no time has passed (0: time has passed)
    wait,       \* history: per credential, the denial or the retry last seen
    solo,       \* history: per credential, the bucket map of a limiter that
                \* is only ever called for that credential
    lastOp,     \* history: the operation of the last step and its results
    req,        \* the requests being served: per request, its Authorization
                \* header, the handler serving it, the position of control
                \* in that handler, its context values and its response
    unauth,     \* history: the error Auth last answered to a missing or
                \* malformed header, and to a key that is not stored
    registry,   \* the backend.Registry: its backends map and primary name
    regHist,    \* history: the name of the first registration ever made,
                \* and per name the adapter registered last under it
    got,        \* the last call made on the registry and what it returned
    hcall,      \* the last request served by a handler taken alone: its
                \* inputs, its response and the backend operations invoked
    stream,     \* one streaming chat request in handleStream: the adapter,
                \* what is left of the upstream's body, the request's
                \* context, and the response written to the client
    conc,       \* the goroutines that use one RateLimiter at the same time:
                \* the holders of rl.mu, the position of each Allow call
                \* and of cleanup, and the history of the calls made while
                \* no time passes
    audit,      \* history of one RateLimiter followed over time: per
                \* credential, the number of calls permitted at each time,
                \* and the bucket map of a limiter that gets the same
                \* permitted calls and sweeps and none of the denied calls
    startup     \* the process from main to serving: the configuration it
                \* loaded, the position in the loop that registers the
                \* backends, and what Primary gave the last request

limiterVars == <<rate, burst, buckets, now, nextSweep, streak, wait, solo>>

registryVars == <<registry, regHist, got>>

backendVars == <<registryVars, hcall, stream, conc, audit, startup>>

vars ==
    <<rate, burst, buckets, now, nextSweep, streak, wait, solo, lastOp, req,
      unauth, backendVars>>

Min(a, b) == IF a < b THEN a ELSE b

\* A map without the keys of ks.
Without(m, ks) == [k \in (DOMAIN m) \ ks |-> m[k]]

\* A map with key k set to v.
With(m, k, v) == [x \in (DOMAIN m) \cup {k} |-> IF x = k THEN v ELSE m[x]]

\* A map restricted to the keys of ks.
Restrict(m, ks) == [k \in (DOMAIN m) \cap ks |-> m[k]]

\* ------------------------------------------------------------- RateLimiter

\* Allow with the remaining count read before the token is consumed.
AllowRemainingBeforeConsume(bks, key, t, rt, bst) ==
    LET exists  == key \in DOMAIN bks
        b       == IF exists THEN bks[key]
                   ELSE [tokens |-> bst * TokenScale, lastSeen |-> t]
        filled  == Min(bst * TokenScale, b.tokens + (t - b.lastSeen) * rt)
    IN  IF filled < TokenScale
        THEN [buckets   |-> With(bks, key, [tokens |-> filled, lastSeen |-> t]),
              remaining |-> 0, ok |-> FALSE, created |-> ~exists]
        ELSE [buckets   |-> With(bks, key, [tokens   |-> filled - TokenScale,
                                            lastSeen |-> t]),
              remaining |-> filled \div TokenScale,
              ok |-> TRUE, created |-> ~exists]

\* Allow with a refill that is not capped at the burst.
AllowUncappedRefill(bks, key, t, rt, bst) ==
    LET exists  == key \in DOMAIN bks
        b       == IF exists THEN bks[key]
                   ELSE [tokens |-> bst * TokenScale, lastSeen |-> t]
        filled  == b.tokens + (t - b.lastSeen) * rt
    IN  IF filled < TokenScale
        THEN [buckets   |-> With(bks, key, [tokens |-> filled, lastSeen |-> t]),
              remaining |-> 0, ok |-> FALSE, created |-> ~exists]
        ELSE [buckets   |-> With(bks, key, [tokens   |-> filled - TokenScale,
                                            lastSeen |-> t]),
              remaining |-> (filled - TokenScale) \div TokenScale,
              ok |-> TRUE, created |-> ~exists]

\* Allow with one bucket shared by every key: a permitted call for one key
\* also takes a token from every other bucket.
AllowSharedTokens(bks, key, t, rt, bst) ==
    LET exists  == key \in DOMAIN bks
        b       == IF exists THEN bks[key]
                   ELSE [tokens |-> bst * TokenScale, lastSeen |-> t]
        filled  == Min(bst * TokenScale, b.tokens + (t - b.lastSeen) * rt)
        others  == [k \in DOMAIN bks |->
                      IF bks[k].tokens >= TokenScale
                      THEN [bks[k] EXCEPT !.tokens = @ - TokenScale]
                      ELSE bks[k]]
    IN  IF filled < TokenScale
        THEN [buckets   |-> With(bks, key, [tokens |-> filled, lastSeen |-> t]),
              remaining |-> 0, ok |-> FALSE, created |-> ~exists]
        ELSE [buckets   |-> With(others, key, [tokens   |-> filled - TokenScale,
                                               lastSeen |-> t]),
              remaining |-> (filled - TokenScale) \div TokenScale,
              ok |-> TRUE, created |-> ~exists]

\* Allow, ratelimit.go: the bucket map after the call, the remaining count
\* and whether the call is permitted.  bks is rl.buckets, t is time.Now(),
\* rt is rl.rate and bst is rl.burst.
Allow(bks, key, t, rt, bst) ==
    LET exists  == key \in DOMAIN bks
        b       == IF exists THEN bks[key]
                   ELSE [tokens |-> bst * TokenScale, lastSeen |-> t]
        elapsed == t - b.lastSeen
        filled  == Min(bst * TokenScale, b.tokens + elapsed * rt)
    IN  IF filled < TokenScale
        THEN [buckets   |-> With(bks, key, [tokens |-> filled, lastSeen |-> t]),
              remaining |-> 0,
              ok        |-> FALSE,
              created   |-> ~exists]
        ELSE [buckets   |-> With(bks, key, [tokens   |-> filled - TokenScale,
                                            lastSeen |-> t]),
              remaining |-> (filled - TokenScale) \div TokenScale,
              ok        |-> TRUE,
              created   |-> ~exists]

\* Stale with a bucket last seen exactly at the cutoff counted as stale.
StaleAtCutoff(bks, t) ==
    {k \in DOMAIN bks : bks[k].lastSeen <= t - Retention}

\* The keys one pass of cleanup's loop deletes: lastSeen.Before(cutoff).
Stale(bks, t) ==
    {k \in DOMAIN bks : bks[k].lastSeen < t - Retention}

\* One pass of cleanup's loop body.
cleanup(bks, t) == Without(bks, Stale(bks, t))

\* --------------------------------------------------------------- apierror

\* No error.
NoError ==
    [status |-> 0, message |-> << >>, type |-> "", code |-> "", param |-> ""]

\* Unauthorized with a code that tells a missing header from a wrong key.
UnauthorizedCodePerCause(msg) ==
    [status |-> 401, message |-> msg, type |-> "authentication_error",
     code |-> IF msg = <<"Invalid API key.">> THEN "invalid_api_key"
              ELSE "missing_api_key",
     param |-> ""]

\* apierror.Unauthorized
Unauthorized(msg) ==
    [status |-> 401, message |-> msg, type |-> "authentication_error",
     code |-> "invalid_api_key", param |-> ""]

\* apierror.RateLimited
RateLimited ==
    [status |-> 429,
     message |-> <<"Rate limit exceeded. Please retry after a brief wait.">>,
     type |-> "rate_limit_error", code |-> "rate_limit_exceeded", param |-> ""]

\* apierror.InvalidRequest
InvalidRequest(msg) ==
    [status |-> 400, message |-> msg, type |-> "invalid_request_error",
     code |-> "", param |-> ""]

\* apierror.InvalidParam
InvalidParam(param, msg) ==
    [status |-> 400, message |-> msg, type |-> "invalid_request_error",
     code |-> "", param |-> param]

\* apierror.BackendUnavailable
BackendUnavailable(backend) ==
    [status |-> 503,
     message |-> <<"Backend ", backend, " is currently unavailable.">>,
     type |-> "backend_error", code |-> "backend_unavailable", param |-> ""]

\* Internal with a type of its own, outside the types of apierror.
InternalOwnType(msg) ==
    [status |-> 500, message |-> msg, type |-> "internal_error",
     code |-> "", param |-> ""]

\* apierror.Internal
Internal(msg) ==
    [status |-> 500, message |-> msg, type |-> "server_error",
     code |-> "", param |-> ""]

\* A response nothing has been written to.  status 0: WriteHeader has not
\* been called; limit and remaining -1, retryAfter 0: the header is not set.
NoResponse ==
    [status |-> 0, ctype |-> "", limit |-> -1, remaining |-> -1,
     retryAfter |-> 0, requestID |-> << >>, body |-> << >>]

\* http.ResponseWriter.WriteHeader: the first status written stands.
WriteHeader(w, code) ==
    IF w.status = 0 THEN [w EXCEPT !.status = code] ELSE w

\* w.Header().Set("Content-Type", v): no effect once the header is sent.
SetContentType(w, v) ==
    IF w.status = 0 THEN [w EXCEPT !.ctype = v] ELSE w

\* apierror.Write
Write(w, err) ==
    LET h == WriteHeader(SetContentType(w, "application/json"), err.status)
    IN  [h EXCEPT !.body = Append(@, [kind |-> "error", error |-> err])]

\* The status and the error of a response whose body is one error.
Answered(w) == [w.body[1].error EXCEPT !.status = w.status]

\* json.NewEncoder(w).Encode(resp) after setting the JSON content type: the
\* first write sends status 200.
WriteJSON(w, what) ==
    LET h == WriteHeader(SetContentType(w, "application/json"), 200)
    IN  [h EXCEPT !.body = Append(@, [kind |-> "json", value |-> what])]

\* --------------------------------------------------------------- KeyStore

\* The keys loaded into the key store.
StoredKeys == {KeyA, KeyB}

\* A key store that accepts every key.
ValidateAny(key) == TRUE

\* KeyStore.Validate: TRUE when the key is accepted.
Validate(key) == key \in StoredKeys

\* ------------------------------------------------------------- middleware

\* Authorization header values: absent, another scheme, no token, a blank
\* token, a stored key, a stored key padded with blanks, and a key that is
\* not stored.
Headers ==
    { << >>,
      <<"Token ", "sk-a">>,
      <<"Bearer ">>,
      <<"Bearer ", " ">>,
      <<"Bearer ", "sk-a">>,
      <<"Bearer ", " ", "sk-a", " ">>,
      <<"Bearer ", "sk-wrong">> }

\* strings.TrimSpace
RECURSIVE TrimLeft(_)
TrimLeft(str) ==
    IF str # << >> /\ Head(str) = " " THEN TrimLeft(Tail(str)) ELSE str

RECURSIVE TrimRight(_)
TrimRight(str) ==
    IF str # << >> /\ str[Len(str)] = " "
    THEN TrimRight(SubSeq(str, 1, Len(str) - 1))
    ELSE str

TrimSpace(str) == TrimRight(TrimLeft(str))

\* extractBearerToken without the check for an empty token.
extractBearerTokenNoEmptyCheck(h) ==
    IF h = << >> THEN [token |-> << >>, ok |-> FALSE]
    ELSE IF Head(h) # "Bearer " THEN [token |-> << >>, ok |-> FALSE]
    ELSE [token |-> TrimSpace(Tail(h)), ok |-> TRUE]

\* extractBearerToken
extractBearerToken(h) ==
    IF h = << >> THEN [token |-> << >>, ok |-> FALSE]
    ELSE IF Head(h) # "Bearer " THEN [token |-> << >>, ok |-> FALSE]
    ELSE LET token == TrimSpace(Tail(h))
         IN  IF token = << >> THEN [token |-> << >>, ok |-> FALSE]
             ELSE [token |-> token, ok |-> TRUE]

\* Denied with X-RateLimit-Remaining left out.
DeniedWithoutRemaining(w, bst) ==
    Write([w EXCEPT !.limit = bst, !.retryAfter = 1], RateLimited)

\* RateLimit, when Allow denies: the headers and the 429 response.
Denied(w, bst) ==
    Write([w EXCEPT !.limit = bst, !.remaining = 0, !.retryAfter = 1],
          RateLimited)

\* RateLimit, when Allow permits: the headers set before next is called.
Permitted(w, bst, remaining) ==
    [w EXCEPT !.limit = bst, !.remaining = remaining]

\* A handler is the sequence of the middleware wrapped around it, outermost
\* first, followed by the name of the innermost handler.
Wrap(m, h) == <<m>> \o h

\* Chain with the loop running from the first middleware to the last, which
\* makes the first middleware the innermost.
RECURSIVE ChainLoopUp(_, _, _)
ChainLoopUp(h, mw, i) ==
    IF i <= Len(mw) THEN ChainLoopUp(Wrap(mw[i], h), mw, i + 1) ELSE h

ChainFirstInnermost(h, mw) == ChainLoopUp(h, mw, 1)

\* Chain: the loop from the last middleware to the first.
RECURSIVE ChainLoop(_, _, _)
ChainLoop(h, mw, i) ==
    IF i >= 1 THEN ChainLoop(Wrap(mw[i], h), mw, i - 1) ELSE h

Chain(h, mw) == ChainLoop(h, mw, Len(mw))

\* The protected list with RateLimit placed before Auth.
ProtectedRateLimitFirst ==
    <<"RequestID", "Recover", "Metrics", "Logging", "RateLimit", "Auth">>

\* server.New: the middleware around the handler of a protected route.
ProtectedMiddleware ==
    <<"RequestID", "Recover", "Metrics", "Logging", "Auth", "RateLimit">>

\* The handlers of the protected routes.
RouteHandlers == {"ChatCompletions", "Models", "Embeddings"}

\* The pass-through middleware mwA and mwB of the Chain test.
TestMiddleware == {"A", "B"}

\* The middleware lists of the Auth and RateLimit tests.
TestChains == {<<"Auth">>, <<"RateLimit">>, <<"Auth", "RateLimit">>}

RECURSIVE SeqsUpTo(_, _)
SeqsUpTo(S, n) ==
    IF n = 0 THEN {<< >>}
    ELSE LET shorter == SeqsUpTo(S, n - 1)
         IN  shorter \cup {Append(q, x) : q \in shorter, x \in S}

\* The middleware lists handed to Chain around the test handler inner:
\* those of the Auth and RateLimit tests, and every list of at most MaxChain
\* pass-through middleware.
TestLists == TestChains \cup SeqsUpTo(TestMiddleware, MaxChain)

\* The handlers server.New registers on the mux without middleware.  OpenAPI,
\* SwaggerUI and the metrics handler are registered the same way.
UnprotectedHandlers == {"Health", "Ready"}

\* What is served: the three protected routes, the routes without
\* middleware, and the test handler under each of the test lists.  h is the
\* innermost handler and mw the list of middleware handed to Chain.
Served ==
    {[h |-> h, mw |-> ProtectedMiddleware] : h \in RouteHandlers}
        \cup {[h |-> h, mw |-> << >>] : h \in UnprotectedHandlers}
        \cup {[h |-> "inner", mw |-> mw] : mw \in TestLists}

\* X-Request-ID sent by the client: none, or an identifier.
ClientRequestIDs == {<< >>, <<"client-id">>}

\* generateID: the identifier is random; every request gets this one.
generateID == <<"generated-id">>

\* ctx.Value(key) as seen by the frame at depth pos: a value attached by the
\* frame at depth `at` is in the context of the frames below it only.
CtxValue(v, at, pos) == IF at # 0 /\ pos > at THEN v ELSE << >>

\* APIKeyFromContext, in the frame at depth pos of request q.
APIKeyFromContext(q, pos) == CtxValue(q.ctxKey, q.ctxKeyAt, pos)

\* RequestIDFromContext, in the frame at depth pos of request q.
RequestIDFromContext(q, pos) == CtxValue(q.ctxID, q.ctxIDAt, pos)

\* statusWriter.status as Metrics and Logging read it after next returns.
StatusSeen(w) == IF w.status = 0 THEN 200 ELSE w.status

\* Logging: the level of the canonical log line.
LogLevel(status) ==
    IF status >= 500 THEN "ERROR" ELSE IF status >= 400 THEN "WARN" ELSE "INFO"

\* The string a token stands for: its pieces joined.
RECURSIVE Joined(_)
Joined(token) ==
    IF token = << >> THEN "" ELSE Head(token) \o Joined(Tail(token))

\* maskKey keeps this many characters of the end of a key.
MaskKeep == 8

\* maskKey
maskKey(key) ==
    IF Len(key) <= MaskKeep THEN "***"
    ELSE "..." \o SubSeq(key, Len(key) - MaskKeep + 1, Len(key))

\* Logging: the api_key attribute of the canonical log line, << >> when the
\* attribute is left out.
APIKeyAttr(q, pos) ==
    LET key == APIKeyFromContext(q, pos)
    IN  IF key # << >> THEN <<maskKey(Joined(key))>> ELSE << >>

Event(q, kind) == [name |-> q.stack[q.pos], depth |-> q.pos, kind |-> kind]

\* ---------------------------------------------------------------- handlers

\* A request body is the sequence of its pieces: its first piece is a JSON
\* object or text that is not JSON, and more pieces are what follows it.  The
\* empty body is the empty sequence.
\* messages of a chat object: the field is absent, null, an empty array, a
\* string (not the type of the field), or an array of one message.
ChatObject(messages, streaming) ==
    [json |-> TRUE, messages |-> messages, stream |-> streaming]

NotJSONChat == [json |-> FALSE, messages |-> "absent", stream |-> FALSE]

\* Request bodies of POST /v1/chat/completions.
ChatBodies ==
    {<< >>, <<NotJSONChat>>}
        \cup {<<ChatObject(m, FALSE)>> :
                 m \in {"absent", "null", "empty", "string", "one"}}
        \cup {<<ChatObject("one", TRUE)>>}
        \cup {<<ChatObject("one", FALSE), NotJSONChat>>,
              <<ChatObject("empty", FALSE), NotJSONChat>>}

\* input of an embeddings object: the field is absent, null, an empty
\* string, an empty array, or a string that is not empty.
EmbedObject(input) == [json |-> TRUE, input |-> input]

NotJSONEmbed == [json |-> FALSE, input |-> "absent"]

\* Request bodies of POST /v1/embeddings.
EmbedBodies ==
    {<< >>, <<NotJSONEmbed>>}
        \cup {<<EmbedObject(i)>> :
                 i \in {"absent", "null", "emptystring", "emptyarray",
                        "text"}}
        \cup {<<EmbedObject("text"), NotJSONEmbed>>}

\* Whether the whole body is one JSON value.
ValidJSON(body) == Len(body) = 1 /\ body[1].json

\* json.NewDecoder(r.Body).Decode(&req) for a ChatRequest: the first JSON
\* value of the body is decoded and what follows it is not read.  Messages
\* is a slice: absent, null and [] all leave it with length 0.
DecodeChat(body) ==
    IF body = << >> \/ ~body[1].json \/ body[1].messages = "string"
    THEN [err |-> TRUE, lenMessages |-> 0, stream |-> FALSE]
    ELSE [err |-> FALSE,
          lenMessages |-> IF body[1].messages = "one" THEN 1 ELSE 0,
          stream |-> body[1].stream]

\* Decode for an EmbedRequest.  Input is a json.RawMessage: it receives the
\* bytes of the value as they are written, so null has length 4, "" and []
\* have length 2, and only an absent field leaves it with length 0.
DecodeEmbed(body) ==
    IF body = << >> \/ ~body[1].json
    THEN [err |-> TRUE, lenInput |-> 0]
    ELSE [err |-> FALSE,
          lenInput |-> CASE body[1].input = "absent" -> 0
                         [] body[1].input = "null" -> 4
                         [] body[1].input \in {"emptystring", "emptyarray"}
                                -> 2
                         [] OTHER -> 6]

\* The name of the primary backend, << >> when none is registered.
Primaries == {<< >>, <<"mlx">>}

\* What the backend call does: it returns a response, returns an error, or
\* panics.
BackendResults == {"ok", "err", "panic"}

\* The outcome of a handler: the response, the operations of the backend it
\* invoked, and whether the handler panicked.
Outcome(w, ops, panics) ==
    [resp |-> w, ops |-> ops, backendCalled |-> ops # << >>,
     panics |-> panics]

\* handleJSON that calls the backend again after an error.
handleJSONRetry(w, primary, result) ==
    IF result = "panic" THEN Outcome(w, <<"ChatCompletion">>, TRUE)
    ELSE IF result = "err"
    THEN Outcome(Write(w, BackendUnavailable(primary[1])),
                 <<"ChatCompletion", "ChatCompletion">>, FALSE)
    ELSE Outcome(WriteJSON(w, "chat"), <<"ChatCompletion">>, FALSE)

\* handleJSON
handleJSON(w, primary, result) ==
    IF result = "panic" THEN Outcome(w, <<"ChatCompletion">>, TRUE)
    ELSE IF result = "err"
    THEN Outcome(Write(w, BackendUnavailable(primary[1])),
                 <<"ChatCompletion">>, FALSE)
    ELSE Outcome(WriteJSON(w, "chat"), <<"ChatCompletion">>, FALSE)

\* handleStream: the header is committed before the backend is called.
handleStream(w, primary, result) ==
    LET h == WriteHeader(SetContentType(w, "text/event-stream"), 200)
    IN  IF result = "panic" THEN Outcome(h, <<"ChatCompletionStream">>, TRUE)
        ELSE IF result = "err"
        THEN Outcome(h, <<"ChatCompletionStream">>, FALSE)
        ELSE Outcome([h EXCEPT !.body =
                          @ \o <<[kind |-> "event", value |-> "chunk"],
                                 [kind |-> "event", value |-> "[DONE]"]>>],
                     <<"ChatCompletionStream">>, FALSE)

\* handler.ChatCompletions
ChatCompletions(w, body, primary, result) ==
    LET dec == DecodeChat(body)
    IN  IF dec.err
        THEN Outcome(Write(w, InvalidRequest(
                         <<"Invalid JSON in request body: ", "err">>)),
                     << >>, FALSE)
        ELSE IF dec.lenMessages = 0
        THEN Outcome(Write(w, InvalidParam("messages",
                         <<"messages is required and must not be empty">>)),
                     << >>, FALSE)
        ELSE IF primary = << >>
        THEN Outcome(Write(w, BackendUnavailable("default")), << >>, FALSE)
        ELSE IF dec.stream THEN handleStream(w, primary, result)
        ELSE handleJSON(w, primary, result)

\* handler.Models
Models(w, primary, result) ==
    IF primary = << >>
    THEN Outcome(Write(w, BackendUnavailable("default")), << >>, FALSE)
    ELSE IF result = "panic" THEN Outcome(w, <<"ListModels">>, TRUE)
    ELSE IF result = "err"
    THEN Outcome(Write(w, BackendUnavailable(primary[1])),
                 <<"ListModels">>, FALSE)
    ELSE Outcome(WriteJSON(w, "models"), <<"ListModels">>, FALSE)

\* handler.Embeddings
Embeddings(w, body, primary, result) ==
    LET dec == DecodeEmbed(body)
    IN  IF dec.err
        THEN Outcome(Write(w, InvalidRequest(
                         <<"Invalid JSON in request body: ", "err">>)),
                     << >>, FALSE)
        ELSE IF dec.lenInput = 0
        THEN Outcome(Write(w, InvalidParam("input", <<"input is required">>)),
                     << >>, FALSE)
        ELSE IF primary = << >>
        THEN Outcome(Write(w, BackendUnavailable("default")), << >>, FALSE)
        ELSE IF result = "panic" THEN Outcome(w, <<"CreateEmbedding">>, TRUE)
        ELSE IF result = "err"
        THEN Outcome(Write(w, BackendUnavailable(primary[1])),
                     <<"CreateEmbedding">>, FALSE)
        ELSE Outcome(WriteJSON(w, "embeddings"), <<"CreateEmbedding">>, FALSE)

\* The body of the answer of Ready.
ReadyBody(status, backend, error) ==
    [status |-> status, backend |-> backend, error |-> error]

\* The names of the adapters of a list.
NamesOf(order) == [i \in 1..Len(order) |-> order[i].name]

\* Ready: the loop over reg.All(), from the i-th adapter on.  healthy is the
\* set of adapters whose Health returns nil.
RECURSIVE ReadyLoop(_, _, _, _)
ReadyLoop(w, order, healthy, i) ==
    IF i > Len(order)
    THEN [resp   |-> WriteJSON(w, ReadyBody("ready", "", "")),
          probed |-> NamesOf(order)]
    ELSE IF order[i] \notin healthy
    THEN [resp   |-> WriteJSON(WriteHeader(w, 503),
                        ReadyBody("unavailable", order[i].name, "err")),
          probed |-> NamesOf(SubSeq(order, 1, i))]
    ELSE ReadyLoop(w, order, healthy, i + 1)

\* Ready that does not probe the first adapter.
ReadyFromSecond(order, healthy) ==
    ReadyLoop(SetContentType(NoResponse, "application/json"), order, healthy,
              2)

\* handler.Ready
Ready(order, healthy) ==
    ReadyLoop(SetContentType(NoResponse, "application/json"), order, healthy,
              1)

\* handler.Health
Health(w) ==
    Outcome(WriteJSON(SetContentType(w, "application/json"),
                      ReadyBody("ok", "", "")),
            << >>, FALSE)

\* The test handler of the middleware tests: w.WriteHeader(http.StatusOK).
inner(w) == Outcome(WriteHeader(w, 200), << >>, FALSE)

\* A request not yet received.
IdleRequest ==
    [st |-> "idle", h |-> "", mw |-> << >>, stack |-> << >>,
     header |-> << >>, clientID |-> << >>,
     pos |-> 0, dir |-> "call",
     ctxKey |-> << >>, ctxKeyAt |-> 0, ctxID |-> << >>, ctxIDAt |-> 0,
     resp |-> NoResponse, trace |-> << >>,
     ksCalls |-> 0, allowCalls |-> 0, allowOk |-> FALSE, allowRem |-> 0,
     backendCalls |-> 0, keyAtHandler |-> << >>,
     inFlight |-> FALSE, counted |-> << >>, logged |-> << >>,
     crashed |-> FALSE, sentAtPanic |-> -1,
     body |-> << >>, primary |-> << >>]

\* next.ServeHTTP(w, r): control enters the next frame.
CallNext(q) ==
    [q EXCEPT !.trace = Append(@, Event(q, "in")), !.pos = @ + 1]

\* The frame at q.pos returns to its caller without calling next.
ReturnEarly(q) ==
    [q EXCEPT !.trace = Append(@, Event(q, "in")) \o <<Event(q, "out")>>,
              !.dir = "return",
              !.pos = @ - 1,
              !.st = IF q.pos = 1 THEN "done" ELSE "run"]

\* The innermost handler returns.
HandlerReturns(q) ==
    [q EXCEPT !.trace = Append(@, Event(q, "handler")),
              !.dir = "return",
              !.pos = @ - 1,
              !.st = IF q.pos = 1 THEN "done" ELSE "run"]

\* The innermost handler panics.  sentAtPanic is the status the handler had
\* sent by then, 0 when it had not written the header.
HandlerPanics(q) ==
    [q EXCEPT !.trace = Append(@, Event(q, "handler")),
              !.sentAtPanic = q.resp.status,
              !.dir = "panic",
              !.pos = @ - 1,
              !.st = IF q.pos = 1 THEN "done" ELSE "run",
              !.crashed = (q.pos = 1)]

\* Control is about to enter the frame named name of request r.
At(r, name) ==
    /\ req[r].st = "run"
    /\ req[r].dir = "call"
    /\ req[r].stack[req[r].pos] = name

\* ---------------------------------------------------------------- registry

\* Names under which backends are registered.  A backend of the
\* configuration has a name that is not empty.
BackendNames == {"mlx", "first", "second"}

\* Adapters: several adapters can carry the same name.
AdapterIds == {1, 2}
Adapters == [name : BackendNames, id : AdapterIds]

NoAdapter == [name |-> "", id |-> 0]

\* NewRegistry
NewRegistry == [backends |-> << >>, primary |-> ""]

\* Register, with the primary name set by every registration.
RegisterLastIsPrimary(rg, b) ==
    [backends |-> With(rg.backends, b.name, b), primary |-> b.name]

\* Register, keeping the adapter already registered under the name.
RegisterKeepsFirst(rg, b) ==
    [backends |-> IF b.name \in DOMAIN rg.backends THEN rg.backends
                  ELSE With(rg.backends, b.name, b),
     primary  |-> IF rg.primary = "" THEN b.name ELSE rg.primary]

\* Registry.Register
Register(rg, b) ==
    [backends |-> With(rg.backends, b.name, b),
     primary  |-> IF rg.primary = "" THEN b.name ELSE rg.primary]

\* Registry.Get: the adapter, or an error that wraps ErrBackendNotFound and
\* carries the name looked up.
Get(rg, name) ==
    LET n == IF name = "" THEN rg.primary ELSE name
    IN  IF n \in DOMAIN rg.backends
        THEN [ok |-> TRUE, b |-> rg.backends[n], wraps |-> "", name |-> ""]
        ELSE [ok |-> FALSE, b |-> NoAdapter, wraps |-> "ErrBackendNotFound",
              name |-> n]

\* Registry.Primary
Primary(rg) == Get(rg, "")

\* Every order in which the elements of S can be listed.
RECURSIVE Orders(_)
Orders(S) ==
    IF S = {} THEN {<< >>}
    ELSE UNION {{<<x>> \o o : o \in Orders(S \ {x})} : x \in S}

\* Registry.All: the adapters of the map, in the order in which the map is
\* iterated, which the language leaves open.
All(rg) == Orders({rg.backends[n] : n \in DOMAIN rg.backends})

\* The registries GET /health/ready is served with in the chain of the
\* server: no backend, or one.
ReadyAdapters == {[name |-> "mlx", id |-> 1]}

ReadyRegistries ==
    {NewRegistry} \cup {Register(NewRegistry, b) : b \in ReadyAdapters}

\* Names looked up in the registry: the primary, the names that can be
\* registered, and a name that never is.
LookupNames == {""} \cup BackendNames \cup {"unknown"}

NoCall == [op |-> "none", name |-> "", res |-> << >>]

\* --------------------------------------------------------- streaming relay

\* A line of the upstream's body is the sequence of its pieces; long tells
\* whether it is longer than the buffer of the bufio.Scanner reading it.
Line(text, long) == [text |-> text, long |-> long]

Done == <<"[DONE]">>

\* Lines an upstream sends: two data lines, the [DONE] line, a data line
\* with no space after the colon, an empty line, and a data line too long
\* for the scanner.
UpstreamLines ==
    {Line(<<"data: ", "c1">>, FALSE), Line(<<"data: ", "c2">>, FALSE),
     Line(<<"data: ">> \o Done, FALSE), Line(<<"data:", "c1">>, FALSE),
     Line(<< >>, FALSE), Line(<<"data: ", "c3">>, TRUE)}

\* The bodies of an upstream's response, as the lines it sends.
Upstreams == SeqsUpTo(UpstreamLines, MaxLines)

\* How the body ends after its lines: end of file, or a read error.  It is
\* known when the last line has been read.
UpstreamEnds == {"eof", "err"}

\* The status of the upstream's response, known when the adapter connects;
\* 0 when the upstream cannot be reached and there is no response.
UpstreamStatuses == {0, 200, 500}

\* The adapters: MLX, the Ollama stub, and an adapter of another kind, which
\* hands the sink the payload of every data line it is given and stops when
\* the sink returns an error.
AdapterKinds == {"mlx", "ollama", "scripted"}

\* strings.HasPrefix(line, "data: ")
HasDataPrefix(text) == Len(text) >= 1 /\ text[1] = "data: "

\* strings.TrimPrefix(line, "data: ")
TrimDataPrefix(text) == IF HasDataPrefix(text) THEN Tail(text) ELSE text

\* No streaming request is being served.
IdleStream ==
    [pc |-> "idle", adapter |-> "", upstream |-> << >>, sent |-> << >>,
     ustatus |-> 0, uend |-> "", connected |-> FALSE, cancelled |-> FALSE,
     status |-> 0, ctype |-> "", client |-> << >>, handed |-> << >>,
     reads |-> 0, err |-> "", logged |-> FALSE, hflushed |-> FALSE,
     flushed |-> 0]

\* A flusher that leaves what has been written in the server's buffer.
FlushNothing(s) == s

\* flusher.Flush(): the header, once written, and the events written so far
\* are on their way to the client.  hflushed tells whether the header is,
\* and flushed how many entries of client are.
Flush(s) == [s EXCEPT !.hflushed = (s.status # 0), !.flushed = Len(s.client)]

\* handleStream up to its call of the adapter: the header is committed and
\* flushed.  w is an http.Flusher: the server's writer and statusWriter are.
OpenStream(adapter, up) ==
    Flush([IdleStream EXCEPT !.pc = "relaying", !.adapter = adapter,
                             !.upstream = up, !.sent = up, !.status = 200,
                             !.ctype = "text/event-stream"])

\* The sink without the check of the request's context.
sendUnchecked(s, data) ==
    Flush([s EXCEPT !.client = Append(@, [kind |-> "event", value |-> data]),
                    !.handed = Append(@, [data |-> data, ok |-> TRUE,
                                          cancelled |-> s.cancelled])])

\* send, the sink handed to the adapter: an error once the request's context
\* is cancelled, else one event written and flushed.  The result is in the
\* last entry of handed.
send(s, data) ==
    IF s.cancelled
    THEN [s EXCEPT !.handed = Append(@, [data |-> data, ok |-> FALSE,
                                         cancelled |-> TRUE])]
    ELSE Flush([s EXCEPT !.client = Append(@, [kind |-> "event",
                                               value |-> data]),
                         !.handed = Append(@, [data |-> data, ok |-> TRUE,
                                               cancelled |-> FALSE])])

\* The end of handleStream that drops the adapter's error.
returnedSilently(s, err) == [s EXCEPT !.pc = "returned", !.err = err]

\* The end of handleStream that answers a failure with an error envelope.
returnedWithEnvelope(s, err) ==
    [s EXCEPT !.pc = "returned", !.err = err, !.logged = (err # ""),
              !.client = IF err = "" THEN @
                         ELSE Append(@, [kind |-> "error", value |-> <<err>>])]

\* The adapter's call returns err ("" is nil) and handleStream ends: a
\* failure is logged and nothing is written.
returned(s, err) ==
    [s EXCEPT !.pc = "returned", !.err = err, !.logged = (err # "")]

\* No handler has been called.
NoHandlerCall ==
    [h |-> "none", body |-> << >>, primary |-> << >>, result |-> "",
     order |-> << >>, healthy |-> {}, resp |-> NoResponse, ops |-> << >>,
     probed |-> << >>, panics |-> FALSE]

\* ------------------------------------------- the limiter under concurrency

\* The goroutines serving requests, each in at most one Allow call.
Goroutines == 1..MaxCalls

\* The goroutine NewRateLimiter starts for cleanup, as a holder of rl.mu.
Cleaner == 0

\* An Allow call not started.  pc is the position of the goroutine: "idle",
\* "waiting" in rl.mu.Lock(), "loaded" when it holds the lock and has looked
\* its bucket up, "done" when Allow has returned.
IdleCall ==
    [pc |-> "idle", key |-> << >>, seen |-> [tokens |-> 0, lastSeen |-> 0]]

\* cleanup between two passes of its loop.  ran: a pass has been completed
\* since time last passed; t, before and after are the time of that pass
\* and the bucket map when it took and released the lock.
IdleSweep ==
    [pc |-> "idle", ran |-> FALSE, t |-> 0, before |-> << >>,
     after |-> << >>]

\* History of the calls completed for one key while no time has passed and
\* its bucket has not been deleted: their number, the number permitted, the
\* tokens the bucket held at the first of them, and the remaining counts
\* returned by the permitted ones.
NoBatch == [n |-> 0, okN |-> 0, t0 |-> 0, rems |-> {}]

InitConc ==
    conc = [mu    |-> {},
            call  |-> [g \in Goroutines |-> IdleCall],
            sweep |-> IdleSweep,
            hist  |-> [k \in Credentials |-> NoBatch]]

\* Nothing permitted yet, and no bucket in the limiter spared the denials.
InitAudit ==
    audit = [permitted |-> [k \in Credentials |-> [t \in 0..MaxTime |-> 0]],
             spared    |-> << >>]

\* The process has not been started.
NoStartup ==
    [pc |-> "off", cfg |-> [backends |-> << >>, settings |-> TRUE],
     next |-> 0, skipped |-> 0, primary |-> "none"]

InitBackends ==
    /\ startup = NoStartup
    /\ registry = NewRegistry
    /\ regHist = [first |-> "", last |-> << >>]
    /\ got = NoCall
    /\ hcall = NoHandlerCall
    /\ stream = IdleStream
    /\ InitConc
    /\ InitAudit

NoWait == [phase |-> "none", at |-> 0]

NoOp(op) ==
    [op |-> op, key |-> << >>, ok |-> FALSE, rem |-> 0, created |-> FALSE,
     n |-> 0, retry |-> "none", soloOk |-> FALSE, soloRem |-> 0]

\* The position of a call in a retry after a denial: "first" when the call
\* before it was denied exactly 1/R earlier, "second" when it comes at the
\* same time as a first retry.
RetryOf(w, t, rt) ==
    IF w.phase = "denied" /\ t = w.at + OneOverRate(rt) THEN "first"
    ELSE IF w.phase = "retried" /\ t = w.at THEN "second"
    ELSE "none"

WaitAfter(w, t, rt, ok) ==
    IF RetryOf(w, t, rt) = "first" THEN [phase |-> "retried", at |-> t]
    ELSE IF ~ok THEN [phase |-> "denied", at |-> t]
    ELSE NoWait

\* NewRateLimiter: an empty map, the configured rate and burst.
InitLimiter ==
    /\ rate \in Rates
    /\ burst \in 1..MaxBurst
    /\ buckets = << >>
    /\ now = 0
    /\ nextSweep = CleanupInterval
    /\ streak = [k \in Credentials |-> 0]
    /\ wait = [k \in Credentials |-> NoWait]
    /\ solo = [k \in Credentials |-> << >>]
    /\ lastOp = NoOp("init")

Init ==
    /\ InitLimiter
    /\ req = [r \in Requests |-> IdleRequest]
    /\ unauth = [malformed |-> NoError, invalid |-> NoError]
    /\ InitBackends

\* The history of one Allow(key) call whose results are res.
Observe(key, res) ==
    LET sres == Allow(solo[key], key, now, rate, burst)
        n    == IF res.created THEN 1
                ELSE IF streak[key] > 0 /\ streak[key] < MaxStreak
                     THEN streak[key] + 1
                     ELSE 0
    IN  /\ streak' = [streak EXCEPT ![key] = n]
        /\ wait' = [wait EXCEPT ![key] = WaitAfter(@, now, rate, res.ok)]
        /\ solo' = [solo EXCEPT ![key] = sres.buckets]
        /\ lastOp' = [op |-> "allow", key |-> key, ok |-> res.ok,
                      rem |-> res.remaining, created |-> res.created,
                      n |-> n, retry |-> RetryOf(wait[key], now, rate),
                      soloOk |-> sres.ok, soloRem |-> sres.remaining]

\* A direct call rl.Allow(key).
AllowCall(key) ==
    LET res == Allow(buckets, key, now, rate, burst)
    IN  /\ buckets' = res.buckets
        /\ Observe(key, res)
        /\ UNCHANGED <<rate, burst, now, nextSweep, req, unauth, backendVars>>

\* The ticker of cleanup fires and one pass of its loop runs under the lock.
Sweep ==
    /\ now >= nextSweep
    /\ buckets' = cleanup(buckets, now)
    /\ nextSweep' = nextSweep + CleanupInterval
    /\ solo' = [k \in Credentials |-> cleanup(solo[k], now)]
    /\ lastOp' = NoOp("sweep")
    /\ UNCHANGED <<rate, burst, now, streak, wait, req, unauth, backendVars>>

\* Time passes.
Tick ==
    /\ now < MaxTime
    /\ now' = now + 1
    /\ streak' = [k \in Credentials |-> 0]
    /\ wait' = [k \in Credentials |->
                  IF wait[k].phase = "denied"
                     /\ now + 1 <= wait[k].at + OneOverRate(rate)
                  THEN wait[k] ELSE NoWait]
    /\ lastOp' = NoOp("tick")
    /\ UNCHANGED <<rate, burst, buckets, nextSweep, solo, req, unauth, backendVars>>

Next ==
    \/ \E key \in Credentials : AllowCall(key)
    \/ Sweep
    \/ Tick

Spec == Init /\ [][Next]_vars

\* ---------------------------------------------------------------- serving

\* The server receives a request and calls the handler of its route.
Receive(r) ==
    /\ req[r].st = "idle"
    /\ \E s \in Served, header \in Headers, id \in ClientRequestIDs :
          req' = [req EXCEPT ![r] =
                     [IdleRequest EXCEPT !.st = "run", !.h = s.h, !.mw = s.mw,
                                         !.stack = Chain(<<s.h>>, s.mw),
                                         !.header = header, !.clientID = id,
                                         !.pos = 1]]
    /\ UNCHANGED <<limiterVars, lastOp, unauth, backendVars>>

\* RequestID that generates an identifier whatever the client sent.
RequestIDServeAlwaysGenerates(r) ==
    /\ At(r, "RequestID")
    /\ LET q == req[r]
       IN  req' = [req EXCEPT ![r] =
                      CallNext([q EXCEPT !.resp.requestID = generateID,
                                         !.ctxID = generateID,
                                         !.ctxIDAt = q.pos])]
    /\ UNCHANGED <<limiterVars, lastOp, unauth, backendVars>>

\* RequestID
RequestIDServe(r) ==
    /\ At(r, "RequestID")
    /\ LET q  == req[r]
           id == IF q.clientID = << >> THEN generateID ELSE q.clientID
       IN  req' = [req EXCEPT ![r] =
                      CallNext([q EXCEPT !.resp.requestID = id,
                                         !.ctxID = id,
                                         !.ctxIDAt = q.pos])]
    /\ UNCHANGED <<limiterVars, lastOp, unauth, backendVars>>

\* Recover, up to its call of next: the recovery is deferred.
RecoverServe(r) ==
    /\ At(r, "Recover")
    /\ req' = [req EXCEPT ![r] = CallNext(@)]
    /\ UNCHANGED <<limiterVars, lastOp, unauth, backendVars>>

\* Metrics, up to its call of next.
MetricsServe(r) ==
    /\ At(r, "Metrics")
    /\ req' = [req EXCEPT ![r] = CallNext([@ EXCEPT !.inFlight = TRUE])]
    /\ UNCHANGED <<limiterVars, lastOp, unauth, backendVars>>

\* Logging, up to its call of next.
LoggingServe(r) ==
    /\ At(r, "Logging")
    /\ req' = [req EXCEPT ![r] = CallNext(@)]
    /\ UNCHANGED <<limiterVars, lastOp, unauth, backendVars>>

\* mwA and mwB of the Chain test, up to their call of next.
TracerServe(r) ==
    /\ \/ At(r, "A")
       \/ At(r, "B")
    /\ req' = [req EXCEPT ![r] = CallNext(@)]
    /\ UNCHANGED <<limiterVars, lastOp, unauth, backendVars>>

\* Auth
AuthServe(r) ==
    /\ At(r, "Auth")
    /\ LET q   == req[r]
           ext == extractBearerToken(q.header)
           malformed == Unauthorized(
               <<"Missing or malformed Authorization header. Expected: Bearer <api_key>">>)
           invalid == Unauthorized(<<"Invalid API key.">>)
       IN  IF ~ext.ok
           THEN /\ req' = [req EXCEPT ![r] =
                      ReturnEarly([q EXCEPT !.resp = Write(@, malformed)])]
                /\ unauth' = [unauth EXCEPT !.malformed =
                                 Answered(Write(q.resp, malformed))]
           ELSE IF ~Validate(ext.token)
           THEN /\ req' = [req EXCEPT ![r] =
                      ReturnEarly([q EXCEPT !.ksCalls = @ + 1,
                                            !.resp = Write(@, invalid)])]
                /\ unauth' = [unauth EXCEPT !.invalid =
                                 Answered(Write(q.resp, invalid))]
           ELSE /\ req' = [req EXCEPT ![r] =
                      CallNext([q EXCEPT !.ksCalls = @ + 1,
                                         !.ctxKey = ext.token,
                                         !.ctxKeyAt = q.pos])]
                /\ UNCHANGED unauth
    /\ UNCHANGED <<limiterVars, lastOp, backendVars>>

\* RateLimit without the check for an empty key: the empty key is throttled
\* like any other.
RateLimitPassThrottled(r) ==
    /\ At(r, "RateLimit")
    /\ APIKeyFromContext(req[r], req[r].pos) = << >>
    /\ LET res == Allow(buckets, << >>, now, rate, burst)
       IN  /\ buckets' = res.buckets
           /\ req' = [req EXCEPT ![r] =
                 IF ~res.ok
                 THEN ReturnEarly([@ EXCEPT !.resp = Denied(@, burst)])
                 ELSE CallNext([@ EXCEPT !.resp =
                                   Permitted(@, burst, res.remaining)])]
    /\ UNCHANGED <<rate, burst, now, nextSweep, streak, wait, solo, lastOp,
                   unauth, backendVars>>

\* RateLimit, when the context holds no key: next is called unthrottled.
RateLimitPass(r) ==
    /\ At(r, "RateLimit")
    /\ APIKeyFromContext(req[r], req[r].pos) = << >>
    /\ req' = [req EXCEPT ![r] = CallNext(@)]
    /\ UNCHANGED <<limiterVars, lastOp, unauth, backendVars>>

\* RateLimit, when the context holds a key.
RateLimitServe(r) ==
    /\ At(r, "RateLimit")
    /\ APIKeyFromContext(req[r], req[r].pos) # << >>
    /\ LET q   == req[r]
           key == APIKeyFromContext(q, q.pos)
           res == Allow(buckets, key, now, rate, burst)
           c   == [q EXCEPT !.allowCalls = @ + 1, !.allowOk = res.ok,
                            !.allowRem = res.remaining]
       IN  /\ buckets' = res.buckets
           /\ Observe(key, res)
           /\ req' = [req EXCEPT ![r] =
                 IF ~res.ok
                 THEN ReturnEarly([c EXCEPT !.resp = Denied(@, burst)])
                 ELSE CallNext([c EXCEPT !.resp =
                                   Permitted(@, burst, res.remaining)])]
    /\ UNCHANGED <<rate, burst, now, nextSweep, unauth, backendVars>>

\* One run of a handler: its outcome, the body it read and the primary
\* backend the registry gave it.
Ran(out, body, primary) == [out |-> out, body |-> body, primary |-> primary]

\* The innermost handler runs.  The body, the registry and the backend are
\* read by the handler only, and are chosen here.
HandlerServe(r) ==
    /\ req[r].st = "run"
    /\ req[r].dir = "call"
    /\ req[r].pos = Len(req[r].stack)
    /\ LET q == req[r]
           h == q.stack[q.pos]
       IN  \E run \in
              IF h = "ChatCompletions"
              THEN {Ran(ChatCompletions(q.resp, b, p, res), b, p) :
                      b \in ChatBodies, p \in Primaries, res \in BackendResults}
              ELSE IF h = "Models"
              THEN {Ran(Models(q.resp, p, res), << >>, p) :
                      p \in Primaries, res \in BackendResults}
              ELSE IF h = "Embeddings"
              THEN {Ran(Embeddings(q.resp, b, p, res), b, p) :
                      b \in EmbedBodies, p \in Primaries, res \in BackendResults}
              ELSE IF h = "Health"
              THEN {Ran(Health(q.resp), << >>, << >>)}
              ELSE IF h = "Ready"
              THEN {Ran(Outcome(Ready(o, hl).resp, << >>, FALSE), << >>, << >>) :
                      o \in UNION {All(rg) : rg \in ReadyRegistries},
                      hl \in SUBSET ReadyAdapters}
              ELSE {Ran(inner(q.resp), << >>, << >>)} :
              LET out == run.out
                  c == [q EXCEPT !.resp = out.resp,
                                 !.backendCalls = @ + (IF out.backendCalled
                                                       THEN 1 ELSE 0),
                                 !.keyAtHandler = APIKeyFromContext(q, q.pos),
                                 !.body = run.body,
                                 !.primary = run.primary]
              IN  req' = [req EXCEPT ![r] =
                            IF out.panics THEN HandlerPanics(c)
                            ELSE HandlerReturns(c)]
    /\ UNCHANGED <<limiterVars, lastOp, unauth, backendVars>>

\* What the frame at q.pos does after next.ServeHTTP has returned.
ExitPart(q) ==
    LET name == q.stack[q.pos]
    IN  IF name = "Metrics"
        THEN [q EXCEPT !.inFlight = FALSE,
                       !.counted = Append(@, [status |-> StatusSeen(q.resp)])]
        ELSE IF name = "Logging"
        THEN [q EXCEPT !.logged = Append(@,
                 [status    |-> StatusSeen(q.resp),
                  level     |-> LogLevel(StatusSeen(q.resp)),
                  requestID |-> RequestIDFromContext(q, q.pos),
                  api_key   |-> APIKeyAttr(q, q.pos)])]
        ELSE q

\* next.ServeHTTP returns to the frame at q.pos, which finishes and returns.
Return(r) ==
    /\ req[r].st = "run"
    /\ req[r].dir = "return"
    /\ LET q == ExitPart(req[r])
       IN  req' = [req EXCEPT ![r] =
                     [q EXCEPT !.trace = Append(@, Event(q, "out")),
                               !.pos = @ - 1,
                               !.st = IF q.pos = 1 THEN "done" ELSE "run"]]
    /\ UNCHANGED <<limiterVars, lastOp, unauth, backendVars>>

\* Deferred functions none of which recovers: the panic goes on above
\* Recover.
PanicPartNoRecover(q) ==
    IF q.stack[q.pos] = "Metrics" THEN [q EXCEPT !.inFlight = FALSE] ELSE q

\* What the deferred functions of the frame at q.pos do with a panic.
PanicPart(q) ==
    LET name == q.stack[q.pos]
    IN  IF name = "Recover"
        THEN [q EXCEPT !.resp = Write(@, Internal(<<"Internal server error.">>)),
                       !.dir = "return"]
        ELSE IF name = "Metrics"
        THEN [q EXCEPT !.inFlight = FALSE]
        ELSE q

\* A panic unwinds the frame at q.pos; a panic that leaves the outermost
\* frame ends the request without a recovery of this program.
Unwind(r) ==
    /\ req[r].st = "run"
    /\ req[r].dir = "panic"
    /\ LET q == PanicPart(req[r])
       IN  req' = [req EXCEPT ![r] =
                     [q EXCEPT !.trace = Append(@, Event(q, "unwind")),
                               !.pos = @ - 1,
                               !.st = IF q.pos = 1 THEN "done" ELSE "run",
                               !.crashed = (q.pos = 1 /\ q.dir = "panic")]]
    /\ UNCHANGED <<limiterVars, lastOp, unauth, backendVars>>

\* The response has been sent: the request and its response are discarded.
Close(r) ==
    /\ req[r].st = "done"
    /\ req' = [req EXCEPT ![r] = IdleRequest]
    /\ UNCHANGED <<limiterVars, lastOp, unauth, backendVars>>

Serve(r) ==
    \/ Receive(r)
    \/ RequestIDServe(r)
    \/ RecoverServe(r)
    \/ MetricsServe(r)
    \/ LoggingServe(r)
    \/ TracerServe(r)
    \/ AuthServe(r)
    \/ RateLimitPass(r)
    \/ RateLimitServe(r)
    \/ HandlerServe(r)
    \/ Return(r)
    \/ Unwind(r)
    \/ Close(r)

\* The requests are served in a stretch of time too short for a refill or a
\* sweep; Spec follows the limiter over time.
NextPipeline == \E r \in Requests : Serve(r)

SpecPipeline == Init /\ [][NextPipeline]_vars

\* ------------------------------------------------------- registry in use

gatewayVars ==
    <<limiterVars, lastOp, req, unauth, stream, conc, audit, startup>>

\* reg.Register(b).  Backends are registered while no request is served.
RegisterCall(b) ==
    /\ hcall.h = "none"
    /\ registry' = Register(registry, b)
    /\ regHist' = [first |-> IF regHist.first = "" THEN b.name
                             ELSE regHist.first,
                   last  |-> With(regHist.last, b.name, b)]
    /\ got' = [op |-> "Register", name |-> b.name, res |-> << >>]
    /\ UNCHANGED <<gatewayVars, hcall>>

\* reg.Get(name), and reg.Primary() when name is empty.
GetCall(name) ==
    /\ got' = [op |-> "Get", name |-> name, res |-> Get(registry, name)]
    /\ UNCHANGED <<gatewayVars, registry, regHist, hcall>>

\* reg.All()
AllCall ==
    /\ \E order \in All(registry) :
           got' = [op |-> "All", name |-> "", res |-> order]
    /\ UNCHANGED <<gatewayVars, registry, regHist, hcall>>

NextRegistry ==
    \/ \E b \in Adapters : RegisterCall(b)
    \/ \E name \in LookupNames : GetCall(name)
    \/ AllCall

SpecRegistry == Init /\ [][NextRegistry]_vars

\* ------------------------------------------------------- handlers in use

\* reg.Primary() as the handlers use it: the name of the primary backend,
\* << >> when Primary returns an error.
PrimaryName(rg) ==
    IF Primary(rg).ok THEN <<Primary(rg).b.name>> ELSE << >>

\* A handler serves a request on its own, as in the handler tests: the body
\* and what the backend does are inputs, the primary is the registry's.
HandleCall(h, body, result) ==
    LET p   == PrimaryName(registry)
        out == IF h = "ChatCompletions"
               THEN ChatCompletions(NoResponse, body, p, result)
               ELSE IF h = "Embeddings"
               THEN Embeddings(NoResponse, body, p, result)
               ELSE Models(NoResponse, p, result)
    IN  /\ hcall.h = "none"
        /\ hcall' = [NoHandlerCall EXCEPT
                        !.h = h, !.body = body, !.primary = p,
                        !.result = result, !.resp = out.resp,
                        !.ops = out.ops, !.panics = out.panics]
        /\ UNCHANGED <<gatewayVars, registryVars>>

\* GET /health/ready: Health of each backend succeeds or fails.
ReadyCall ==
    /\ hcall.h = "none"
    /\ \E order \in All(registry) :
           \E healthy \in SUBSET {order[i] : i \in 1..Len(order)} :
               LET out == Ready(order, healthy)
               IN  hcall' = [NoHandlerCall EXCEPT
                                !.h = "Ready", !.order = order,
                                !.healthy = healthy,
                                !.resp = out.resp, !.probed = out.probed]
    /\ UNCHANGED <<gatewayVars, registryVars>>

\* The response has been sent and the handler has returned.
Respond ==
    /\ hcall.h # "none"
    /\ hcall' = NoHandlerCall
    /\ UNCHANGED <<gatewayVars, registryVars>>

NextHandlers ==
    \/ \E b \in Adapters : RegisterCall(b)
    \/ \E body \in ChatBodies, result \in BackendResults :
           HandleCall("ChatCompletions", body, result)
    \/ \E body \in EmbedBodies, result \in BackendResults :
           HandleCall("Embeddings", body, result)
    \/ \E result \in BackendResults : HandleCall("Models", << >>, result)
    \/ ReadyCall
    \/ Respond

SpecHandlers == Init /\ [][NextHandlers]_vars

\* ------------------------------------------------------ streaming in use

streamRest ==
    <<limiterVars, lastOp, req, unauth, registryVars, hcall, conc, audit,
      startup>>

\* handleStream starts: a streaming chat request has reached it.
StreamOpen ==
    /\ stream.pc = "idle"
    /\ \E adapter \in AdapterKinds, up \in Upstreams :
           stream' = OpenStream(adapter, up)
    /\ UNCHANGED streamRest

\* The client disconnects, or the deadline passes: r.Context() is cancelled.
Cancel ==
    /\ stream.pc = "relaying"
    /\ ~stream.cancelled
    /\ stream' = [stream EXCEPT !.cancelled = TRUE]
    /\ UNCHANGED streamRest

\* Ollama.ChatCompletionStream
OllamaStream ==
    /\ stream.pc = "relaying"
    /\ stream.adapter = "ollama"
    /\ stream' = returned(stream, "not implemented")
    /\ UNCHANGED streamRest

\* MLX.ChatCompletionStream up to its loop: the request is sent with the
\* context of the inbound request, and a status other than 200 is an error.
MLXConnect ==
    /\ stream.pc = "relaying"
    /\ stream.adapter = "mlx"
    /\ ~stream.connected
    /\ \E ustatus \in UpstreamStatuses :
           LET s == [stream EXCEPT !.ustatus = ustatus]
           IN  stream' = IF stream.cancelled THEN returned(stream, "context")
                         ELSE IF ustatus = 0 THEN returned(s, "unreachable")
                         ELSE IF ustatus # 200 THEN returned(s, "status")
                         ELSE [s EXCEPT !.connected = TRUE]
    /\ UNCHANGED streamRest

\* One turn of the loop of MLX.ChatCompletionStream on the next line of the
\* body, or the end of the loop when scanner.Scan() returns false.
MLXScan ==
    /\ stream.pc = "relaying"
    /\ stream.adapter = "mlx"
    /\ stream.connected
    /\ \E uend \in UpstreamEnds :
       LET s == stream
       IN  stream' =
             IF s.upstream = << >>
             THEN returned([s EXCEPT !.uend = uend],
                           IF uend = "eof" THEN "" ELSE "read")
             ELSE LET line == Head(s.upstream)
                      t    == [s EXCEPT !.upstream = Tail(@),
                                        !.reads = @ + 1]
                      data == TrimDataPrefix(line.text)
                      u    == send(t, data)
                  IN  IF line.long THEN returned(s, "token too long")
                      ELSE IF ~HasDataPrefix(line.text) THEN t
                      ELSE IF ~u.handed[Len(u.handed)].ok
                      THEN returned(u, "context")
                      ELSE IF data = Done THEN returned(u, "")
                      ELSE u
    /\ UNCHANGED streamRest

\* The read of the upstream's body fails because the context it was made
\* with is cancelled: scanner.Scan() returns false.
MLXReadCancelled ==
    /\ stream.pc = "relaying"
    /\ stream.adapter = "mlx"
    /\ stream.connected
    /\ stream.cancelled
    /\ stream' = returned(stream, "context")
    /\ UNCHANGED streamRest

\* One step of an adapter of another kind: it hands the sink the payload of
\* its next data line whatever it handed before, and returns at the end.
ScriptedStep ==
    /\ stream.pc = "relaying"
    /\ stream.adapter = "scripted"
    /\ \E uend \in UpstreamEnds :
       LET s == stream
       IN  stream' =
             IF s.upstream = << >>
             THEN returned([s EXCEPT !.uend = uend],
                           IF uend = "eof" THEN "" ELSE "read")
             ELSE LET line == Head(s.upstream)
                      t    == [s EXCEPT !.upstream = Tail(@),
                                        !.reads = @ + 1]
                      u    == send(t, TrimDataPrefix(line.text))
                  IN  IF ~HasDataPrefix(line.text) THEN t
                      ELSE IF ~u.handed[Len(u.handed)].ok
                      THEN returned(u, "context")
                      ELSE u
    /\ UNCHANGED streamRest

\* The response is complete; the next streaming request can be served.
StreamClose ==
    /\ stream.pc = "returned"
    /\ stream' = IdleStream
    /\ UNCHANGED streamRest

AdapterStep ==
    OllamaStream \/ MLXConnect \/ MLXScan \/ MLXReadCancelled \/ ScriptedStep

NextStream ==
    \/ StreamOpen
    \/ Cancel
    \/ OllamaStream
    \/ MLXConnect
    \/ MLXScan
    \/ MLXReadCancelled
    \/ ScriptedStep
    \/ StreamClose

SpecStream == Init /\ [][NextStream]_vars

\* The goroutine serving the request keeps running: a step of the adapter
\* that can be taken is taken.
SpecStreamFair == SpecStream /\ WF_vars(AdapterStep)

\* ------------------------------------------------ the limiter in parallel

concRest ==
    <<rate, burst, streak, wait, solo, lastOp, req, unauth, registryVars,
      hcall, stream, audit, startup>>

\* A goroutine calls rl.Allow(key) and reaches rl.mu.Lock().  The
\* goroutines are alike: they are numbered in the order of their calls.
AllowBegin(g, key) ==
    /\ conc.call[g].pc = "idle"
    /\ \A g2 \in 1..(g - 1) : conc.call[g2].pc # "idle"
    /\ conc' = [conc EXCEPT !.call[g] =
                    [IdleCall EXCEPT !.pc = "waiting", !.key = key]]
    /\ UNCHANGED <<buckets, now, nextSweep, concRest>>

\* The first half of Allow with a lock that never blocks.
AllowLockNoMutex(g) ==
    /\ conc.call[g].pc = "waiting"
    /\ LET key == conc.call[g].key
           b   == IF key \in DOMAIN buckets THEN buckets[key]
                  ELSE [tokens |-> burst * TokenScale, lastSeen |-> now]
       IN  /\ buckets' = With(buckets, key, b)
           /\ conc' = [conc EXCEPT !.mu = @ \cup {g},
                                   !.call[g].pc = "loaded",
                                   !.call[g].seen = b]
    /\ UNCHANGED <<now, nextSweep, concRest>>

\* Allow, first half: rl.mu.Lock() returns, the bucket of the key is looked
\* up, and created when the map does not hold it; b points to it.
AllowLock(g) ==
    /\ conc.call[g].pc = "waiting"
    /\ conc.mu = {}
    /\ LET key == conc.call[g].key
           b   == IF key \in DOMAIN buckets THEN buckets[key]
                  ELSE [tokens |-> burst * TokenScale, lastSeen |-> now]
       IN  /\ buckets' = With(buckets, key, b)
           /\ conc' = [conc EXCEPT !.mu = @ \cup {g},
                                   !.call[g].pc = "loaded",
                                   !.call[g].seen = b]
    /\ UNCHANGED <<now, nextSweep, concRest>>

\* Allow, second half: the refill, the test and the consumption are written
\* to the bucket from what was read of it, the results are returned and the
\* deferred rl.mu.Unlock() runs.
AllowReturn(g) ==
    /\ conc.call[g].pc = "loaded"
    /\ LET c      == conc.call[g]
           res    == Allow(With(buckets, c.key, c.seen), c.key, now, rate,
                           burst)
           after  == res.buckets[c.key]
           filled == after.tokens + (IF res.ok THEN TokenScale ELSE 0)
           h      == conc.hist[c.key]
       IN  /\ buckets' = With(buckets, c.key, after)
           /\ conc' = [conc EXCEPT
                  !.mu = @ \ {g},
                  !.call[g] = [IdleCall EXCEPT !.pc = "done"],
                  !.hist[c.key] =
                      [n    |-> h.n + 1,
                       okN  |-> h.okN + (IF res.ok THEN 1 ELSE 0),
                       t0   |-> IF h.n = 0 THEN filled ELSE h.t0,
                       rems |-> IF res.ok THEN h.rems \cup {res.remaining}
                                ELSE h.rems]]
    /\ UNCHANGED <<now, nextSweep, concRest>>

\* cleanup: the ticker has fired, rl.mu.Lock() returns and the cutoff is
\* taken from time.Now().
SweepLock ==
    /\ now >= nextSweep
    /\ conc.sweep.pc = "idle"
    /\ conc.mu = {}
    /\ conc' = [conc EXCEPT !.mu = @ \cup {Cleaner},
                            !.sweep = [pc |-> "run", ran |-> FALSE,
                                       t |-> now, before |-> buckets,
                                       after |-> << >>]]
    /\ nextSweep' = nextSweep + CleanupInterval
    /\ UNCHANGED <<buckets, now, concRest>>

\* cleanup: the loop over the map deletes one stale bucket.
SweepDelete ==
    /\ conc.sweep.pc = "run"
    /\ \E k \in Stale(buckets, conc.sweep.t) :
           /\ buckets' = Without(buckets, {k})
           /\ conc' = [conc EXCEPT !.hist[k] = NoBatch]
    /\ UNCHANGED <<now, nextSweep, concRest>>

\* cleanup: the loop over the map has ended; rl.mu.Unlock().
SweepUnlock ==
    /\ conc.sweep.pc = "run"
    /\ Stale(buckets, conc.sweep.t) = {}
    /\ conc' = [conc EXCEPT !.mu = @ \ {Cleaner},
                            !.sweep = [@ EXCEPT !.pc = "idle", !.ran = TRUE,
                                                !.after = buckets]]
    /\ UNCHANGED <<buckets, now, nextSweep, concRest>>

\* Time passes between the calls: time.Now() is read under the lock, so
\* time that passes while a goroutine waits is time that passed before its
\* call.  The lock is held for the length of a call or of a pass, far less
\* than a period of the ticker: the pass of a tick runs before the next tick.
ConcTick ==
    /\ now < MaxTime
    /\ now < nextSweep
    /\ conc.mu = {}
    /\ \A g \in Goroutines : conc.call[g].pc \in {"idle", "done"}
    /\ now' = now + 1
    /\ conc' = [conc EXCEPT !.call = [g \in Goroutines |-> IdleCall],
                            !.sweep = IdleSweep,
                            !.hist = [k \in Credentials |-> NoBatch]]
    /\ UNCHANGED <<buckets, nextSweep, concRest>>

NextConcurrent ==
    \/ \E g \in Goroutines, key \in Credentials : AllowBegin(g, key)
    \/ \E g \in Goroutines : AllowLock(g)
    \/ \E g \in Goroutines : AllowReturn(g)
    \/ SweepLock
    \/ SweepDelete
    \/ SweepUnlock
    \/ ConcTick

SpecConcurrent == Init /\ [][NextConcurrent]_vars

\* ------------------------------------------------ the limiter over time

auditRest ==
    <<rate, burst, streak, wait, solo, lastOp, req, unauth, registryVars,
      hcall, stream, conc, startup>>

\* rl.Allow(key), with the history of the permitted calls.  The limiter
\* spared the denials gets the call only when it is permitted.
AuditAllow(key) ==
    LET res == Allow(buckets, key, now, rate, burst)
    IN  /\ buckets' = res.buckets
        /\ audit' =
              IF res.ok
              THEN [permitted |-> [audit.permitted EXCEPT ![key][now] = @ + 1],
                    spared    |-> Allow(audit.spared, key, now, rate,
                                        burst).buckets]
              ELSE audit
        /\ UNCHANGED <<now, nextSweep, auditRest>>

\* One pass of cleanup, on the limiter and on the limiter spared the
\* denials.
AuditSweep ==
    /\ now >= nextSweep
    /\ buckets' = cleanup(buckets, now)
    /\ nextSweep' = nextSweep + CleanupInterval
    /\ audit' = [audit EXCEPT !.spared = cleanup(@, now)]
    /\ UNCHANGED <<now, auditRest>>

\* Time passes.
AuditTick ==
    /\ now < MaxTime
    /\ now' = now + 1
    /\ UNCHANGED <<buckets, nextSweep, audit, auditRest>>

NextAudit ==
    \/ \E key \in Credentials : AuditAllow(key)
    \/ AuditSweep
    \/ AuditTick

SpecAudit == Init /\ [][NextAudit]_vars

\* ------------------------------------------------------------------ claims

\* C1: on a credential that has no bucket yet, with no time passing between
\* the calls, the n-th consecutive Allow call is permitted and returns
\* remaining = burst - n for n = 1..burst, and call burst + 1 is denied and
\* returns remaining 0.
C1_BurstThenDeny ==
    (lastOp.op = "allow" /\ lastOp.n >= 1 /\ lastOp.n <= burst + 1) =>
        /\ lastOp.ok = (lastOp.n <= burst)
        /\ lastOp.rem = (IF lastOp.n <= burst THEN burst - lastOp.n ELSE 0)

\* The call after a whole burst on a new bucket has just been denied.
C1_Witness ==
    /\ lastOp.op = "allow"
    /\ burst = MaxBurst
    /\ lastOp.n = burst + 1
    /\ ~lastOp.ok

\* A step that leaves credential k's bucket in place and changes its token
\* count is an Allow(k) call, and the new count is the old one plus
\* elapsed * rate, capped at the burst, less the token consumed.
C2_RefillStep ==
    \A k \in (DOMAIN buckets) \cap (DOMAIN buckets') :
        /\ lastOp'.op = "sweep" => buckets'[k] = buckets[k]
        /\ buckets'[k] # buckets[k] =>
              /\ lastOp'.op = "allow"
              /\ lastOp'.key = k
              /\ buckets'[k].lastSeen = now
              /\ buckets'[k].tokens =
                    Min(burst * TokenScale,
                        buckets[k].tokens + (now - buckets[k].lastSeen) * rate)
                    - (IF lastOp'.ok THEN TokenScale ELSE 0)

\* C2: every bucket's token count is within [0, burst]; a token count is
\* refilled only inside Allow, in proportion to the time elapsed since the
\* bucket's lastSeen, and the sweep never changes a token count.
C2_TokensWithinBurst ==
    /\ [](\A k \in DOMAIN buckets :
            /\ buckets[k].tokens >= 0
            /\ buckets[k].tokens <= burst * TokenScale)
    /\ [][C2_RefillStep]_vars

\* A sweep has run over a bucket that holds a partial refill.
C2_Witness ==
    /\ lastOp.op = "sweep"
    /\ \E k \in DOMAIN buckets :
          /\ buckets[k].tokens % TokenScale # 0
          /\ buckets[k].lastSeen > 0

\* C3: when an Allow call is denied and the next calls for that credential
\* come exactly 1/R later, with no time passing between them, the first of
\* them is permitted and the second is denied.
C3_OneMoreAfterWait ==
    /\ lastOp.retry = "first" => lastOp.ok
    /\ lastOp.retry = "second" => ~lastOp.ok

\* C4: the bucket of a credential, and the results of its Allow calls, are
\* those of a limiter that is never called for any other credential.
C4_KeysIndependent ==
    /\ \A k \in Credentials : Restrict(buckets, {k}) = solo[k]
    /\ lastOp.op = "allow" =>
          /\ lastOp.ok = lastOp.soloOk
          /\ lastOp.rem = lastOp.soloRem

\* sk-a's burst is exhausted and a first call for sk-b has been permitted
\* with remaining burst - 1.
C4_Witness ==
    /\ lastOp.op = "allow"
    /\ lastOp.key = KeyB
    /\ lastOp.created
    /\ lastOp.ok
    /\ lastOp.rem = burst - 1
    /\ KeyA \in DOMAIN buckets
    /\ buckets[KeyA].tokens < TokenScale

\* The innermost handler of request q has run.
HandlerRan(q) == \E i \in 1..Len(q.trace) : q.trace[i].kind = "handler"

\* Control is about to enter the innermost handler of request q.
AtHandler(q) == q.st = "run" /\ q.dir = "call" /\ q.pos = Len(q.stack)

\* The frame at depth d of request q has been entered.
EnteredCount(q, d) ==
    Cardinality({i \in 1..Len(q.trace) :
                    /\ q.trace[i].depth = d
                    /\ q.trace[i].kind \in {"in", "handler"}})

NotBlank(c) == c # " "

\* The header is "Bearer " followed by a token that is not blank.
WellFormed(h) ==
    /\ h # << >>
    /\ Head(h) = "Bearer "
    /\ \E i \in 2..Len(h) : NotBlank(h[i])

\* The token of a well-formed header.
TokenOf(h) == SelectSeq(Tail(h), NotBlank)

\* C5: on a protected route, control reaches the route handler, and a
\* backend is called, only for a request whose bearer token the key store
\* accepted and whose Allow call was permitted.
C5_HandlerOnlyWhenAdmitted ==
    \A r \in Requests :
        LET q == req[r]
        IN  (/\ q.h \in RouteHandlers
             /\ (AtHandler(q) \/ HandlerRan(q) \/ q.backendCalls > 0)) =>
                /\ WellFormed(q.header)
                /\ TokenOf(q.header) \in StoredKeys
                /\ q.ksCalls = 1
                /\ q.allowCalls = 1
                /\ q.allowOk

\* A request on a protected route has been answered 200 after a backend call.
C5_Witness ==
    \E r \in Requests :
        /\ req[r].st = "done"
        /\ req[r].h = "Models"
        /\ req[r].backendCalls = 1
        /\ req[r].resp.status = 200

\* What C6 says of the Auth frame at depth p of request q, once entered.
C6_Auth(q, p) ==
    IF ~WellFormed(q.header) \/ TokenOf(q.header) \notin StoredKeys
    THEN /\ q.resp.status = 401
         /\ q.resp.body[1].kind = "error"
         /\ q.resp.body[1].error.type = "authentication_error"
         /\ q.resp.body[1].error.code = "invalid_api_key"
         /\ EnteredCount(q, p + 1) = 0
         /\ ~(q.dir = "call" /\ q.pos > p)
         /\ ~WellFormed(q.header) => q.ksCalls = 0
    ELSE /\ q.ksCalls = 1
         /\ q.ctxKeyAt = p
         /\ q.ctxKey = TokenOf(q.header)
         /\ EnteredCount(q, p + 1) <= 1
         /\ q.st = "done" => EnteredCount(q, p + 1) = 1
         /\ (HandlerRan(q) /\ p + 1 = Len(q.stack)) =>
               q.keyAtHandler = TokenOf(q.header)

\* C6: Auth answers 401 authentication_error / invalid_api_key without
\* calling next when the header is absent, has no "Bearer " prefix, has an
\* empty token or a token that is not stored, and consults the key store in
\* the last case only; for a stored token it calls next exactly once, with
\* the token as the credential of the request context.
C6_AuthRejectsOrPassesKey ==
    \A r \in Requests :
        \A p \in 1..Len(req[r].stack) :
            (/\ req[r].stack[p] = "Auth"
             /\ \E i \in 1..Len(req[r].trace) :
                   req[r].trace[i].depth = p /\ req[r].trace[i].kind = "in")
            => C6_Auth(req[r], p)

\* Auth alone has answered 401 to a key that is not stored.
C6_Witness ==
    \E r \in Requests :
        /\ req[r].st = "done"
        /\ req[r].mw = <<"Auth">>
        /\ req[r].header = <<"Bearer ", "sk-wrong">>
        /\ req[r].ksCalls = 1
        /\ req[r].resp.status = 401

\* C7 as stated: the response to a missing or malformed header and the
\* response to a wrong key are the same in status, type, code and message.
C7_SameUnauthorizedResponse ==
    (unauth.malformed # NoError /\ unauth.invalid # NoError) =>
        unauth.malformed = unauth.invalid

\* C7, amended: the two responses have the same status, type and code, and
\* differ in their message.
C7_SameStatusTypeCode ==
    (unauth.malformed # NoError /\ unauth.invalid # NoError) =>
        /\ unauth.malformed.status = 401
        /\ unauth.invalid.status = 401
        /\ unauth.malformed.type = unauth.invalid.type
        /\ unauth.malformed.code = unauth.invalid.code
        /\ unauth.malformed.param = unauth.invalid.param
        /\ unauth.malformed.message =
              <<"Missing or malformed Authorization header. Expected: Bearer <api_key>">>
        /\ unauth.invalid.message = <<"Invalid API key.">>

\* Auth has answered both a malformed header and a wrong key.
C7_Witness ==
    /\ unauth.malformed # NoError
    /\ unauth.invalid # NoError

\* C8: once the response of an authenticated request on a protected route
\* has a status, it carries X-RateLimit-Limit = burst and
\* X-RateLimit-Remaining = the remaining count of the request's Allow call;
\* Retry-After is set exactly when Allow denied, and then the status is 429,
\* the type rate_limit_error, the remaining count 0, and next is not called.
C8_RateLimitHeaders ==
    \A r \in Requests :
        LET q == req[r]
        IN  (q.h \in RouteHandlers /\ q.ctxKey # << >> /\ q.resp.status # 0) =>
                /\ q.allowCalls = 1
                /\ q.resp.limit = burst
                /\ q.resp.remaining = q.allowRem
                /\ (q.resp.retryAfter # 0) <=> ~q.allowOk
                /\ ~q.allowOk =>
                      /\ q.resp.status = 429
                      /\ q.resp.body[1].error.type = "rate_limit_error"
                      /\ q.resp.remaining = 0
                      /\ ~HandlerRan(q)
                      /\ ~AtHandler(q)
                      /\ q.backendCalls = 0

\* An authenticated request on a protected route has been answered 429.
C8_Witness ==
    \E r \in Requests :
        /\ req[r].st = "done"
        /\ req[r].h \in RouteHandlers
        /\ req[r].ctxKey = KeyA
        /\ req[r].resp.status = 429
        /\ req[r].resp.retryAfter = 1

\* The RateLimit frame at depth p of request q has been entered with no
\* credential in its context.
C9_EnteredWithoutKey(q, p) ==
    /\ q.stack[p] = "RateLimit"
    /\ q.ctxKeyAt = 0 \/ q.ctxKeyAt > p
    /\ \E i \in 1..Len(q.trace) :
          q.trace[i].depth = p /\ q.trace[i].kind = "in"

\* A step of a RateLimit frame whose context holds no credential calls next
\* and leaves the buckets alone.
C9_Step ==
    \A r \in Requests :
        (/\ At(r, "RateLimit")
         /\ APIKeyFromContext(req[r], req[r].pos) = << >>
         /\ req'[r] # req[r]) =>
            /\ buckets' = buckets
            /\ req'[r].dir = "call"
            /\ req'[r].pos = req[r].pos + 1
            /\ req'[r].resp = req[r].resp

\* C9: RateLimit, given a request whose context holds no credential, calls
\* next exactly once, does not call Allow, creates or changes no bucket and
\* sets no rate-limit header.
C9_NoKeyPassesThrough ==
    /\ [](\A r \in Requests :
            \A p \in 1..Len(req[r].stack) :
                C9_EnteredWithoutKey(req[r], p) =>
                    /\ req[r].allowCalls = 0
                    /\ req[r].resp.limit = -1
                    /\ req[r].resp.remaining = -1
                    /\ req[r].resp.retryAfter = 0
                    /\ EnteredCount(req[r], p + 1) <= 1
                    /\ req[r].st = "done" => EnteredCount(req[r], p + 1) = 1)
    /\ [][C9_Step]_vars

\* RateLimit alone has served a request and the test handler has answered.
C9_Witness ==
    \E r \in Requests :
        /\ req[r].st = "done"
        /\ req[r].mw = <<"RateLimit">>
        /\ HandlerRan(req[r])
        /\ req[r].resp.status = 200

\* The order C10 gives for the list mw around the handler h.
C10_Order(mw, h) ==
    LET n == Len(mw)
    IN  [i \in 1..(2 * n + 1) |->
            IF i <= n THEN <<mw[i], "in">>
            ELSE IF i = n + 1 THEN <<h, "handler">>
            ELSE <<mw[2 * n + 2 - i], "out">>]

\* No frame of request q has returned before the handler ran, and none has
\* panicked.
C10_Straight(q) ==
    \A i \in 1..Len(q.trace) :
        /\ q.trace[i].kind # "unwind"
        /\ q.trace[i].kind = "out" =>
              \E j \in 1..(i - 1) : q.trace[j].kind = "handler"

\* C10: Chain(h, m1..mn) runs the entry parts in the order m1..mn, then h,
\* then the exit parts in the order mn..m1; with no middleware it runs h
\* alone.
C10_ChainOrder ==
    \A r \in Requests :
        LET q == req[r]
            o == C10_Order(q.mw, q.h)
        IN  (q.st # "idle" /\ C10_Straight(q)) =>
                /\ Len(q.trace) <= Len(o)
                /\ \A i \in 1..Len(q.trace) :
                      <<q.trace[i].name, q.trace[i].kind>> = o[i]
                /\ q.st = "done" => Len(q.trace) = Len(o)
                /\ (q.st = "done" /\ q.mw = << >> /\ q.h = "inner") =>
                      q.resp = [NoResponse EXCEPT !.status = 200]

\* The test handler has been served under Chain(inner, mwA, mwB).
C10_Witness ==
    \E r \in Requests :
        /\ req[r].st = "done"
        /\ req[r].mw = <<"A", "B">>
        /\ Len(req[r].trace) = 5

\* ---------------------------------------------------------------------- C11
\* C11: Primary() and Get("") fail exactly when no adapter has ever been
\* registered; otherwise both return the adapter registered under the name of
\* the first registration ever made, and later registrations under other
\* names leave the primary name alone.
C11_PrimaryIsFirst ==
    /\ Get(registry, "") = Primary(registry)
    /\ Primary(registry).ok <=> regHist.first # ""
    /\ regHist.first # "" =>
           /\ registry.primary = regHist.first
           /\ Primary(registry).b = regHist.last[regHist.first]
           /\ Primary(registry).b.name = regHist.first
    /\ (got.op = "Get" /\ got.name = "") =>
           IF regHist.first = "" THEN ~got.res.ok
           ELSE got.res.ok /\ got.res.b = regHist.last[regHist.first]

\* Primary() was called after adapters were registered under three names,
\* and returned an adapter.
C11_Witness ==
    /\ got.op = "Get" /\ got.name = "" /\ got.res.ok
    /\ DOMAIN regHist.last = BackendNames
    /\ got.res.b.name = regHist.first

\* ---------------------------------------------------------------------- C12
\* C12: Get(n), for a name n that is not empty, returns the adapter
\* registered last under n, or an error wrapping ErrBackendNotFound when none
\* was; All() returns one adapter for each registered name, that adapter.
C12_OneEntryPerName ==
    /\ \A n \in LookupNames \ {""} :
           IF n \in DOMAIN regHist.last
           THEN Get(registry, n).ok /\ Get(registry, n).b = regHist.last[n]
           ELSE ~Get(registry, n).ok
                /\ Get(registry, n).wraps = "ErrBackendNotFound"
    /\ \A order \in All(registry) :
           /\ Len(order) = Cardinality(DOMAIN regHist.last)
           /\ \A n \in DOMAIN regHist.last :
                  \E i \in 1..Len(order) :
                      /\ order[i] = regHist.last[n]
                      /\ \A j \in 1..Len(order) :
                             order[j].name = n => j = i
    /\ got.op = "Get" /\ got.name # "" =>
           got.res.ok = (got.name \in DOMAIN regHist.last)
    /\ got.op = "All" => Len(got.res) = Cardinality(DOMAIN regHist.last)

\* All() was called after a second adapter replaced the one registered under
\* the primary name, and another name was registered.
C12_Witness ==
    /\ got.op = "All" /\ Len(got.res) = 2
    /\ \E i \in 1..2 : got.res[i].name = regHist.first /\ got.res[i].id = 2
    /\ \E i \in 1..2 : got.res[i].name # regHist.first

\* ---------------------------------------------------------------------- C13
\* The error that ChatCompletions or Embeddings answers to an invalid
\* request: status 400, type invalid_request_error, no backend operation.
RejectedAsInvalid ==
    /\ hcall.resp.status = 400
    /\ Len(hcall.resp.body) = 1
    /\ hcall.resp.body[1].kind = "error"
    /\ hcall.resp.body[1].error.type = "invalid_request_error"
    /\ hcall.ops = << >>

\* C13: a chat request whose body is not valid JSON, or whose messages field
\* is absent or an empty array, is answered 400 invalid_request_error and no
\* backend operation is invoked.
C13_ChatValidatedBeforeBackend ==
    (/\ hcall.h = "ChatCompletions"
     /\ \/ ~ValidJSON(hcall.body)
        \/ hcall.body[1].messages \in {"absent", "empty"}) =>
        RejectedAsInvalid

\* ---------------------------------------------------------------------- C14
\* C14: an embeddings request whose body is malformed JSON, or whose input
\* is absent, null, an empty string or an empty array, is answered 400
\* invalid_request_error and CreateEmbedding is not invoked; only a request
\* with an input that is not empty reaches the backend.
C14_EmbeddingsNeedInput ==
    hcall.h = "Embeddings" =>
        /\ (\/ ~ValidJSON(hcall.body)
            \/ hcall.body[1].input \in
                   {"absent", "null", "emptystring", "emptyarray"}) =>
               RejectedAsInvalid
        /\ hcall.ops # << >> =>
               ValidJSON(hcall.body) /\ hcall.body[1].input = "text"

\* ---------------------------------------------------------------------- C19
\* The request passed the handler's validation of its body: Models reads no
\* body; the others answer 400 to a body they reject.
PassedValidation == hcall.resp.status # 400

FirstFailing(order, healthy) ==
    IF \A i \in 1..Len(order) : order[i] \in healthy THEN 0
    ELSE CHOOSE i \in 1..Len(order) :
             /\ order[i] \notin healthy
             /\ \A j \in 1..(i - 1) : order[j] \in healthy

RECURSIVE DataPayloads(_)
DataPayloads(lines) ==
    IF lines = << >> THEN << >>
    ELSE IF HasDataPrefix(Head(lines).text)
    THEN <<TrimDataPrefix(Head(lines).text)>> \o DataPayloads(Tail(lines))
    ELSE DataPayloads(Tail(lines))

\* The place of the first [DONE] line among lines; 0 when there is none.
FirstDone(lines) ==
    IF \A i \in 1..Len(lines) : lines[i].text # <<"data: ">> \o Done THEN 0
    ELSE CHOOSE i \in 1..Len(lines) :
             /\ lines[i].text = <<"data: ">> \o Done
             /\ \A j \in 1..(i - 1) : lines[j].text # <<"data: ">> \o Done

\* The events that carry the payloads ps.
EventsOf(ps) == [i \in 1..Len(ps) |-> [kind |-> "event", value |-> ps[i]]]

\* C15: when the upstream of the MLX adapter sends data payloads and then
\* [DONE], and the client does not disconnect, the response is an event
\* stream whose events are those payloads and [DONE], each once, in order and
\* unchanged; lines without the "data: " prefix give no event.
C15_StreamRelayedInOrder ==
    (/\ stream.pc = "returned"
     /\ stream.adapter = "mlx"
     /\ stream.ustatus = 200
     /\ ~stream.cancelled
     /\ FirstDone(stream.sent) > 0) =>
        /\ stream.ctype = "text/event-stream"
        /\ stream.client =
               EventsOf(DataPayloads(
                   SubSeq(stream.sent, 1, FirstDone(stream.sent))))

\* ---------------------------------------------------------------------- C16
\* C16: the [DONE] event is written at most once and ends the relay: no
\* event follows it in the response, whatever the adapter hands to the sink
\* afterwards and whatever the upstream sends after its [DONE] line.
C16_DoneEndsRelay ==
    \A i \in 1..Len(stream.client) :
        stream.client[i].value = Done => i = Len(stream.client)

\* ---------------------------------------------------------------------- C17
\* Every chunk handed to the sink after the cancellation got an error, and
\* every chunk handed to it before was written.
C17_SinkErrors ==
    \A i \in 1..Len(stream.handed) :
        stream.handed[i].ok = ~stream.handed[i].cancelled

\* The MLX adapter returns on the first error of the sink, reading no more.
C17_MLXStops ==
    stream.adapter = "mlx" =>
        \A i \in 1..Len(stream.handed) :
            ~stream.handed[i].ok =>
                /\ i = Len(stream.handed)
                /\ stream.pc = "returned"
                /\ stream.err = "context"

\* Nothing is written to the client while the context is cancelled.
C17_Step ==
    (stream.cancelled /\ stream.pc = "relaying") =>
        stream'.client = stream.client

\* C17: once the context of the request is cancelled, no further event is
\* written to the client; the sink returns an error for every chunk handed to
\* it after that, the MLX adapter stops reading at the first such error, and
\* the handler returns.
C17_CancelStopsRelay ==
    /\ [](C17_SinkErrors /\ C17_MLXStops)
    /\ [][C17_Step]_vars
    /\ (stream.cancelled /\ stream.pc = "relaying") ~>
           (stream.pc = "returned")

\* The context was cancelled after one event was relayed; the sink refused
\* the next chunk and the MLX adapter returned with a line left unread.
C17_Witness ==
    /\ stream.adapter = "mlx"
    /\ stream.pc = "returned"
    /\ stream.cancelled
    /\ Len(stream.client) = 1
    /\ Len(stream.handed) = 2
    /\ ~stream.handed[2].ok
    /\ stream.upstream # << >>

\* ---------------------------------------------------------------------- C18
\* s is an initial part of t.
IsPrefix(s, t) == Len(s) <= Len(t) /\ s = SubSeq(t, 1, Len(s))

\* The chunks the sink wrote, in order.
Relayed(handed) ==
    LET RECURSIVE Pick(_)
        Pick(h) == IF h = << >> THEN << >>
                   ELSE IF Head(h).ok THEN <<Head(h).data>> \o Pick(Tail(h))
                   ELSE Pick(Tail(h))
    IN  Pick(handed)

C18_Truncated ==
    (stream.pc = "returned" /\ stream.err # "") =>
        /\ stream.status = 200
        /\ stream.ctype = "text/event-stream"
        /\ stream.client = EventsOf(Relayed(stream.handed))
        /\ IsPrefix(Relayed(stream.handed), DataPayloads(stream.sent))
        /\ stream.adapter = "mlx" =>
               \A i \in 1..Len(stream.client) : stream.client[i].value # Done
        /\ stream.logged

\* The step in which the adapter's call fails writes nothing.
C18_Step ==
    (stream.pc = "relaying" /\ stream'.pc = "returned" /\ stream'.err # "") =>
        stream'.client = stream.client

\* C18: when the adapter's streaming call fails, the header being committed,
\* the status stays 200, the client has exactly the events relayed before
\* the failure, a prefix of the upstream's payloads, nothing is appended --
\* no [DONE], no error event, no error envelope -- and the failure is logged.
C18_FailureTruncatesStream ==
    /\ []C18_Truncated
    /\ [][C18_Step]_vars

\* The read of the upstream's body failed after the MLX adapter had relayed
\* two events.
C18_Witness ==
    /\ stream.adapter = "mlx"
    /\ stream.pc = "returned"
    /\ stream.err = "read"
    /\ ~stream.cancelled
    /\ Len(stream.client) = 2
    /\ stream.logged

\* ---------------------------------------------------------------------- C21
\* C21: GET /health/ready on a registry that holds no backend answers 503.
C21_NoBackendNotReady ==
    (hcall.h = "Ready" /\ DOMAIN registry.backends = {}) =>
        hcall.resp.status = 503

\* ---------------------------------------------------------------------- C22
\* The routes of the server: the handlers server.New registers on the mux.
ServerRoutes == RouteHandlers \cup UnprotectedHandlers

\* C22: every request the server has served, on any of its routes and
\* whatever its outcome, has produced exactly one canonical log event, and
\* the event carries the status of the response.
C22_OneLogEventPerRequest ==
    \A r \in Requests :
        (req[r].st = "done" /\ req[r].h \in ServerRoutes) =>
            /\ Len(req[r].logged) = 1
            /\ req[r].logged[1].status = StatusSeen(req[r].resp)

\* ---------------------------------------------------------------------- C23
\* A panic has unwound a frame of request q.
Panicked(q) == \E i \in 1..Len(q.trace) : q.trace[i].kind = "unwind"

\* C23: a request on a protected route whose handler panicked has its
\* canonical log line, and the line carries status 500, the status sent to
\* the client.
C23_PanicIsLogged ==
    \A r \in Requests :
        (/\ req[r].st = "done"
         /\ req[r].mw = ProtectedMiddleware
         /\ Panicked(req[r])) =>
            /\ Len(req[r].logged) = 1
            /\ req[r].logged[1].status = 500

\* ---------------------------------------------------------------------- C24
\* C24: the canonical log line of a request on a protected route holds the
\* api_key attribute exactly when the authentication of the request
\* succeeded; the attribute is then the masked credential, and never the
\* credential itself.
C24_LogLineHasMaskedKey ==
    \A r \in Requests :
        LET q == req[r]
        IN  (q.st = "done" /\ q.mw = ProtectedMiddleware /\ q.logged # << >>)
                => /\ q.ctxKeyAt # 0 =>
                          q.logged[1].api_key = <<maskKey(Joined(q.ctxKey))>>
                   /\ q.ctxKeyAt = 0 => q.logged[1].api_key = << >>
                   /\ q.ctxKeyAt # 0 =>
                          q.logged[1].api_key # <<Joined(q.ctxKey)>>

\* ---------------------------------------------------------------------- C25
\* C25: every request that has been through the protected chain, whatever
\* its outcome, has been counted exactly once by Metrics, under the status of
\* its response (the latency is observed in the same statements as the
\* count), and is no longer in flight.
C25_MetricsCountsEveryRequest ==
    \A r \in Requests :
        (req[r].st = "done" /\ req[r].mw = ProtectedMiddleware) =>
            /\ Len(req[r].counted) = 1
            /\ req[r].counted[1].status = StatusSeen(req[r].resp)
            /\ ~req[r].inFlight

\* ---------------------------------------------------------------------- C26
\* The internal-error envelope Recover writes.
InternalEnvelope ==
    [kind |-> "error", error |-> Internal(<<"Internal server error.">>)]

ExpectedRequestID(q) ==
    IF q.clientID # << >> THEN q.clientID ELSE generateID

\* C27: once RequestID has run, the response of a request on a protected
\* route carries X-Request-ID, whatever becomes of the request; its value is
\* the client's identifier when the client sent one and a generated one
\* otherwise; and it is the value every middleware below RequestID, the
\* handler and the canonical log line find in the request context.
C27_RequestIDEverywhere ==
    \A r \in Requests :
        LET q == req[r]
        IN  (q.mw = ProtectedMiddleware /\ (q.st = "done" \/ q.pos > 1)) =>
                /\ q.resp.requestID = ExpectedRequestID(q)
                /\ q.resp.requestID # << >>
                /\ \A p \in 2..Len(q.stack) :
                       RequestIDFromContext(q, p) = q.resp.requestID
                /\ \A i \in 1..Len(q.logged) :
                       q.logged[i].requestID = q.resp.requestID

\* A request that sent its own identifier was rejected with 401; the
\* response and the log line carry the client's identifier.
C27_Witness ==
    \E r \in Requests :
        /\ req[r].st = "done"
        /\ req[r].mw = ProtectedMiddleware
        /\ req[r].clientID = <<"client-id">>
        /\ req[r].resp.status = 401
        /\ req[r].resp.requestID = <<"client-id">>
        /\ Len(req[r].logged) = 1
        /\ req[r].logged[1].requestID = <<"client-id">>

\* ---------------------------------------------------------------------- C28
\* The types of apierror.
ErrorTypes ==
    {"invalid_request_error", "authentication_error", "rate_limit_error",
     "backend_error", "server_error"}

\* The response is JSON with a status outside 2xx.
IsJSONError(w) ==
    /\ w.ctype = "application/json"
    /\ StatusSeen(w) \notin 200..299

\* The body of the response is one error envelope whose error has a message,
\* one of the types of apierror, and the status of the response.
HasEnvelope(w) ==
    /\ Len(w.body) = 1
    /\ w.body[1].kind = "error"
    /\ w.body[1].error.type \in ErrorTypes
    /\ w.body[1].error.message # << >>
    /\ w.body[1].error.status = w.status

C29_AllowIsAtomic ==
    /\ Cardinality(conc.mu) <= 1
    /\ \A g \in Goroutines : conc.call[g].pc = "loaded" => g \in conc.mu
    /\ \A k \in Credentials :
          LET h == conc.hist[k]
          IN  h.n > 0 =>
                 /\ h.okN = Min(h.n, h.t0 \div TokenScale)
                 /\ Cardinality(h.rems) = h.okN
                 /\ h.rems = {(h.t0 \div TokenScale) - i : i \in 1..h.okN}
                 /\ k \in DOMAIN buckets
                 /\ buckets[k].tokens >= 0
                 /\ buckets[k].tokens = h.t0 - h.okN * TokenScale

\* Two goroutines called Allow for the same credential while its bucket held
\* one token: both calls have returned, one permitted with 0 remaining and
\* the other denied.
C29_Witness ==
    \E g1, g2 \in Goroutines, k \in Credentials :
        /\ g1 # g2
        /\ conc.call[g1].pc = "done"
        /\ conc.call[g2].pc = "done"
        /\ conc.hist[k].n = 2
        /\ conc.hist[k].rems = {0}
        /\ conc.hist[k].okN = 1
        /\ conc.hist[k].t0 \div TokenScale = 1

\* ---------------------------------------------------------------------- C30
\* The buckets of bks a sweep at time t is to keep: those last seen at the
\* cutoff or later.
WithinRetention(bks, t) ==
    {k \in DOMAIN bks : bks[k].lastSeen >= t - Retention}

\* C30: a pass of cleanup that has taken the lock at time t with the bucket
\* map `before` releases it with exactly the buckets of `before` last seen
\* within the retention window, unchanged, so that none idle for longer
\* remains.  While the pass runs, cleanup alone holds the lock and no Allow
\* call is between its lookup and its write; an Allow call that has looked
\* its bucket up holds the bucket that is in the map, and right after a pass
\* that is the bucket as it was before the pass, or a bucket it has just
\* created because the pass removed it.
C30_SweepIsExactAndAtomic ==
    LET sw == conc.sweep
    IN  /\ sw.ran =>
              /\ sw.after = Restrict(sw.before, WithinRetention(sw.before, sw.t))
              /\ \A k \in DOMAIN sw.after :
                     sw.t - sw.after[k].lastSeen <= Retention
        /\ sw.pc = "run" =>
              /\ conc.mu = {Cleaner}
              /\ \A g \in Goroutines : conc.call[g].pc # "loaded"
              /\ DOMAIN buckets \subseteq DOMAIN sw.before
              /\ WithinRetention(sw.before, sw.t) \subseteq DOMAIN buckets
              /\ \A k \in DOMAIN buckets : buckets[k] = sw.before[k]
        /\ \A g \in Goroutines :
              LET c == conc.call[g]
              IN  c.pc = "loaded" =>
                     /\ sw.pc = "idle"
                     /\ c.key \in DOMAIN buckets
                     /\ c.seen = buckets[c.key]
                     /\ (sw.ran /\ conc.hist[c.key].n = 0) =>
                            c.seen = IF c.key \in DOMAIN sw.after
                                     THEN sw.before[c.key]
                                     ELSE [tokens   |-> burst * TokenScale,
                                           lastSeen |-> now]

\* A pass removed one bucket and kept another, last seen exactly at the
\* cutoff; an Allow call for the removed credential has then found no
\* bucket and created one.
C30_Witness ==
    \E g \in Goroutines, k \in Credentials :
        /\ conc.sweep.ran
        /\ k \in DOMAIN conc.sweep.before
        /\ k \notin DOMAIN conc.sweep.after
        /\ \E k2 \in DOMAIN conc.sweep.after :
               conc.sweep.after[k2].lastSeen = conc.sweep.t - Retention
        /\ conc.call[g].pc = "loaded"
        /\ conc.call[g].key = k
        /\ conc.call[g].seen.lastSeen = now

\* ---------------------------------------------------------------------- C31
\* The calls permitted for credential k at the times s..t.
RECURSIVE PermittedIn(_, _, _)
PermittedIn(k, s, t) ==
    IF s > t THEN 0 ELSE audit.permitted[k][s] + PermittedIn(k, s + 1, t)

\* C31: for every credential and every interval of time, the calls permitted
\* in the interval number at most the burst plus the rate times the length
\* of the interval (counted in units of 1/TokenScale token).
C31_RateBound ==
    \A k \in Credentials :
        \A s \in 0..now :
            \A t \in s..now :
                PermittedIn(k, s, t) * TokenScale
                    <= burst * TokenScale + rate * (t - s)

\* ---------------------------------------------------------------------- C32
\* The tokens a call of Allow for key k would find in bks now, after the
\* refill: those of a new bucket when bks holds none for k.
Available(bks, k) ==
    IF k \in DOMAIN bks
    THEN Min(burst * TokenScale,
             bks[k].tokens + (now - bks[k].lastSeen) * rate)
    ELSE burst * TokenScale

\* C32: at every time, every credential has the same tokens available in
\* the limiter as in the limiter that was spared all the denied calls.
C32_DenialsCostNothing ==
    \A k \in Credentials :
        Available(buckets, k) = Available(audit.spared, k)


\* The bearer token of request q is one the key store holds.
C33_Authenticates(q) == WellFormed(q.header) /\ TokenOf(q.header) \in StoredKeys

\* A step that changes the buckets is the Allow call of a RateLimit frame
\* whose context holds a stored key, and it changes that key's bucket only.
C33_Step ==
    buckets' # buckets =>
        \E r \in Requests :
            LET key == APIKeyFromContext(req[r], req[r].pos)
            IN  /\ At(r, "RateLimit")
                /\ key \in StoredKeys
                /\ req[r].ctxKeyAt # 0
                /\ req'[r].allowCalls = req[r].allowCalls + 1
                /\ \A k \in (DOMAIN buckets \cup DOMAIN buckets') \ {key} :
                      /\ k \in DOMAIN buckets
                      /\ k \in DOMAIN buckets'
                      /\ buckets'[k] = buckets[k]

\* C33: a request that fails authentication never reads or changes the
\* admission state; every bucket belongs to a key of the key store; on the
\* protected pipeline each authenticated request makes exactly one Allow
\* call and exactly one key-store lookup.
C33_AuthBeforeAdmission ==
    /\ [](/\ DOMAIN buckets \subseteq StoredKeys
          /\ \A r \in Requests :
                LET q == req[r]
                IN  /\ ~C33_Authenticates(q) =>
                          /\ q.allowCalls = 0
                          /\ q.ctxKeyAt = 0
                          /\ q.ksCalls <= (IF WellFormed(q.header) THEN 1 ELSE 0)
                    /\ (q.mw = ProtectedMiddleware /\ C33_Authenticates(q)) =>
                          /\ q.ksCalls <= 1
                          /\ q.allowCalls <= q.ksCalls
                          /\ q.allowCalls = 1 => q.ctxKeyAt # 0
                          /\ q.st = "done" => q.ksCalls = 1 /\ q.allowCalls = 1)
    /\ [][C33_Step]_vars

\* The protected pipeline has turned away a request with a key that is not
\* stored, after one lookup and without an Allow call, while the bucket of
\* an earlier, authenticated request is still in place.
C33_Witness ==
    \E r \in Requests :
        /\ req[r].st = "done"
        /\ req[r].mw = ProtectedMiddleware
        /\ WellFormed(req[r].header)
        /\ ~C33_Authenticates(req[r])
        /\ req[r].resp.status = 401
        /\ req[r].ksCalls = 1
        /\ req[r].allowCalls = 0
        /\ buckets # << >>


\* C34: in a streaming request the 200 status with Content-Type
\* text/event-stream is written and flushed before the adapter's streaming
\* call starts, that is before the upstream is connected or any of its
\* lines read, and every event written to the client is flushed before the
\* relay accepts the next chunk from the adapter.
C34_FlushBeforeNextChunk ==
    /\ stream.pc # "idle" =>
          /\ stream.hflushed
          /\ stream.status = 200
          /\ stream.ctype = "text/event-stream"
    /\ ~stream.hflushed =>
          /\ ~stream.connected
          /\ stream.ustatus = 0
          /\ stream.reads = 0
          /\ stream.handed = << >>
          /\ stream.client = << >>
    /\ stream.flushed = Len(stream.client)

\* MLX is relaying after two events were written, the upstream has more
\* lines, and the client is connected.
C34_Witness ==
    /\ stream.pc = "relaying"
    /\ stream.adapter = "mlx"
    /\ ~stream.cancelled
    /\ Len(stream.client) = 2
    /\ stream.flushed = 2
    /\ stream.upstream # << >>


\* The adapter's streaming call has failed before it produced a chunk: the
\* upstream could not be reached, its initial response was not 200, or the
\* backend is the Ollama stub.
C35_FailedBeforeAnyChunk ==
    /\ stream.pc = "returned"
    /\ stream.err \in {"unreachable", "status", "not implemented"}
    /\ stream.handed = << >>

\* C35: a chat request with stream:true whose backend call fails before any
\* chunk is produced is answered with 503, as on the non-streaming path.
C35_StreamFailureIs503 ==
    C35_FailedBeforeAnyChunk => stream.status = 503

\* C35, amended: a chat request with stream:true whose backend call fails
\* before any chunk is produced keeps the 200 text/event-stream header that
\* was flushed before the call; no event and no error body is written, and
\* the failure is logged.
C35_StreamFailureIsLoggedOnly ==
    C35_FailedBeforeAnyChunk =>
        /\ stream.status = 200
        /\ stream.ctype = "text/event-stream"
        /\ stream.hflushed
        /\ stream.client = << >>
        /\ stream.logged

\* MLX got a 500 from its upstream on a streaming call that the client did
\* not cancel.
C35_Witness ==
    /\ C35_FailedBeforeAnyChunk
    /\ stream.adapter = "mlx"
    /\ stream.ustatus = 500
    /\ ~stream.cancelled


\* C36: whenever the MLX adapter's streaming call returns without error and
\* the client did not disconnect, the last event the client received is
\* [DONE]; a stream that ends without it is reported as a failure by the
\* adapter and logged by the relay.
C36_CleanReturnEndsWithDone ==
    (/\ stream.pc = "returned"
     /\ stream.adapter = "mlx"
     /\ ~stream.cancelled) =>
        \/ /\ stream.client # << >>
           /\ stream.client[Len(stream.client)].value = Done
        \/ stream.err # "" /\ stream.logged


\* The body the handler of request q read is not a valid request: it is not
\* one JSON value, or the required field is missing or empty.
C37_InvalidBody(q) ==
    \/ /\ q.h = "ChatCompletions"
       /\ \/ ~ValidJSON(q.body)
          \/ q.body[1].messages \in {"absent", "empty"}
    \/ /\ q.h = "Embeddings"
       /\ \/ ~ValidJSON(q.body)
          \/ q.body[1].input \in {"absent", "null", "emptystring", "emptyarray"}

\* The stages before the handler decide as stated: an invalid credential
\* gives 401, a denied valid credential 429, and a response of 400, 503 or
\* 200 comes from an admitted request, whose Allow call took a token.
C37_BeforeHandler ==
    \A r \in Requests :
        LET q == req[r]
        IN  (q.st = "done" /\ q.mw = ProtectedMiddleware
                /\ q.h \in RouteHandlers) =>
               /\ ~C33_Authenticates(q) => q.resp.status = 401
               /\ (C33_Authenticates(q) /\ ~q.allowOk) =>
                      q.resp.status = 429 /\ ~HandlerRan(q)
               /\ q.resp.status \in {400, 503, 200} =>
                      /\ C33_Authenticates(q)
                      /\ q.allowCalls = 1
                      /\ q.allowOk
                      /\ q.allowRem < burst

\* C37: on a protected route the status is decided by the first failing
\* stage in the order authentication, admission control, body validation,
\* primary-backend lookup, backend call: an invalid credential yields 401, a
\* denied valid credential 429 whatever the body, an admitted request with
\* an invalid body 400 even when no backend is registered, and the admitted
\* request consumed one token in the 400, 503 and 200 cases.
C37_FirstFailingStageDecides ==
    /\ C37_BeforeHandler
    /\ \A r \in Requests :
          LET q == req[r]
          IN  (/\ q.st = "done"
               /\ q.mw = ProtectedMiddleware
               /\ q.h \in RouteHandlers
               /\ HandlerRan(q)
               /\ C37_InvalidBody(q)) => q.resp.status = 400


\* ------------------------------------------------------------- startup

startupRest ==
    <<limiterVars, lastOp, req, unauth, regHist, got, hcall, stream, conc,
      audit>>

\* A backend of the configuration: its name, type and url, each of which
\* can be empty.
BackendConfigs ==
    [name : {"", "mlx", "second"}, type : {"", "mlx", "ollama", "tgi"},
     url : {"", "http://localhost:11973"}]

\* The configurations: the backends in their order, and whether the other
\* settings (port, rate limit, log level and format) are valid.
Configs == [backends : SeqsUpTo(BackendConfigs, MaxBackends), settings : BOOLEAN]

\* config.validate: TRUE when the configuration has no error.
validate(cfg) ==
    /\ cfg.settings
    /\ Len(cfg.backends) # 0
    /\ \A i \in 1..Len(cfg.backends) :
          /\ cfg.backends[i].name # ""
          /\ cfg.backends[i].type # ""
          /\ cfg.backends[i].url # ""

\* main loads the configuration and exits when it has an error; else it
\* makes the registry.
StartLoad ==
    /\ startup.pc = "off"
    /\ \E cfg \in Configs :
          startup' = [startup EXCEPT !.cfg = cfg,
                                     !.pc = IF validate(cfg) THEN "registering"
                                            ELSE "exited",
                                     !.next = 1]
    /\ registry' = NewRegistry
    /\ UNCHANGED startupRest

\* One turn of the loop of main over cfg.Backends: an mlx backend is
\* registered, an ollama backend is skipped with a warning, and any other
\* type ends the process.
StartRegister ==
    /\ startup.pc = "registering"
    /\ startup.next <= Len(startup.cfg.backends)
    /\ LET b == startup.cfg.backends[startup.next]
       IN  IF b.type = "mlx"
           THEN /\ registry' = Register(registry,
                                        [name |-> b.name, id |-> startup.next])
                /\ startup' = [startup EXCEPT !.next = @ + 1]
           ELSE IF b.type = "ollama"
           THEN /\ startup' = [startup EXCEPT !.next = @ + 1,
                                              !.skipped = @ + 1]
                /\ UNCHANGED registry
           ELSE /\ startup' = [startup EXCEPT !.pc = "exited"]
                /\ UNCHANGED registry
    /\ UNCHANGED startupRest

\* The loop is over: main makes the server and starts it.
StartServe ==
    /\ startup.pc = "registering"
    /\ startup.next > Len(startup.cfg.backends)
    /\ startup' = [startup EXCEPT !.pc = "serving"]
    /\ UNCHANGED <<registry, startupRest>>

\* A handler of the running server calls reg.Primary().
StartRequest ==
    /\ startup.pc = "serving"
    /\ startup' = [startup EXCEPT !.primary =
                      IF Primary(registry).ok THEN "ok" ELSE "err"]
    /\ UNCHANGED <<registry, startupRest>>

\* The process has ended, or is stopped.
StartStop ==
    /\ startup.pc \in {"serving", "exited"}
    /\ startup' = NoStartup
    /\ registry' = NewRegistry
    /\ UNCHANGED startupRest

NextStartup ==
    StartLoad \/ StartRegister \/ StartServe \/ StartRequest \/ StartStop

SpecStartup == Init /\ [][NextStartup]_vars

\* ---------------------------------------------------------------------- C38
\* C38: for every configuration that passes validation, the registry built
\* at startup holds at least one backend before the server accepts traffic,
\* so Primary() never fails while requests are served.
C38_RegistryNeverEmptyWhenServing ==
    startup.pc = "serving" =>
        /\ validate(startup.cfg)
        /\ DOMAIN registry.backends # {}
        /\ Primary(registry).ok
        /\ startup.primary # "err"

====
